---- MODULE Spec2Model ----
(***************************************************************************)
(* Model of zoekt's shard watcher (shards/watcher.go), sharded searcher    *)
(* (shards/shards.go) and result ordering (zoekt.SortFilesByScore).        *)
(*                                                                         *)
(* A searcher is identified by a positive integer; 0 stands for a nil      *)
(* zoekt.Searcher.  A modification time is a positive integer; 0 stands    *)
(* for "no such key" in a map[string]time.Time.                            *)
(***************************************************************************)
EXTENDS Integers, Sequences, FiniteSets, TLC

\* ------------------------------------------------------------------ bounds
\* runtime.NumCPU(): the capacity of shardLoader.throttle.
NumCPU == 2
\* Number of file system changes the environment makes in one run.
MaxFsChanges == 1
\* Largest TotalMaxMatchCount a Search call is given.
MaxTotal == 1
\* Largest Stats.MatchCount one shard reports.
MaxShardMatch == 1
\* Largest list handed to SortFilesByScore in SpecSort.
MaxFiles == 7
\* Largest Score of a FileMatch in SpecSort.
MaxScore == 2

\* Number of documents of the shard indexData.Search runs on.
MaxDocs == 2
\* Largest ShardMaxMatchCount a caller of indexData.Search sets.
MaxShardCap == 2
\* Largest byte offset of a candidate handed to gatherMatches.
MaxOffset == 3
\* Largest number of bytes of a document handed to fillMatch.
MaxData == 4
\* Deepest nesting of And, Or and Not in a query handed to indexData.List.
MaxQueryDepth == 1
\* Largest number of shards that shardLoader.List asks.
MaxListShards == 3
\* Largest number of calls made on one IndexBuilder.
MaxAdds == 2
\* Longest content of a document added to an IndexBuilder.
MaxContent == 3
\* Largest offset of a symbol section.
MaxSection == 1
\* The number of distinct trigrams above which Add takes a document for
\* binary; the program has 20000 (src/indexbuilder.go:159).
maxTrigramCount == 1
\* Largest number of branch names given to one IndexBuilder.
MaxBranches == 33
\* Longest JSON of the unaryData that Write is given.
MaxBlob == 2
\* Longest content of a document given to a build.Builder.
MaxDocSize == 2
\* The number of calls of Builder.Add.
MaxBuilderAdds == 3
\* The shard numbers an earlier run may have left files under.
MaxLeftover == 3
\* Longest text a regexp is matched on, and the nesting of the regexps.
MaxText == 6
MaxReDepth == 1
\* Longest text of runes of more than one byte RegexpToQuery is checked on.
MaxWide == 2
\* Longest text of "s" and U+017F RegexpToQuery is checked on.
MaxFold == 3
\* Largest number of holes of an exclusion class given to LowerRegexp.
MaxHoles == 2
\* The events the gerritFilterLoader receives from the watcher.
MaxGerritEvents == 3
\* The calls of gerritFilterLoader.Close.
MaxGerritCloses == 2
\* Largest shard writeShard writes, in chunks of bytes.
MaxChunks == 3
\* The chunks the bufio.Writer of IndexBuilder.Write holds before it writes
\* to the file; the program has 1 << 20 bytes (src/README.md:223).
MaxBuffered == 1

\* --------------------------------------------------------------- constants
\* Shard file names of the index directory.
Names == {"a", "b"}
\* Capacity of the event channel made by NewDirectorySearcher.
SinkCap == 1

\* Modification times: the one files start with, and a later one per change.
MaxMtime == MaxFsChanges + 1
\* Every successful loadShard follows the creation or a change of its file.
MaxSearchers == Cardinality(Names) + MaxFsChanges
SearcherIds == 1..MaxSearchers

VARIABLES
  \* ---- file system and fsnotify
  disk,        \* [Names -> 0..MaxMtime]: mtime of each *.zoekt file, 0 = absent
  fsLeft,      \* file system changes the environment may still make
  fsEvents,    \* notifications pending on watcher.Events
  \* ---- ShardWatcher
  swShards,    \* ShardWatcher.shards: [Names -> 0..MaxMtime], 0 = no key
  swPc,        \* position of the goroutine started by watch()
  diskTS,      \* the map scan() returned to the running update()
  todo,        \* keys the running range loop of postEvents has not visited
  selQuit,     \* value of s.quit the select statement evaluated
  quitField,   \* ShardWatcher.quit: "chan" or "nil"
  quitClosed,  \* whether the quit channel has been closed
  sink,        \* buffered events of the sink channel
  sinkClosed,  \* whether the sink channel has been closed
  nextId,      \* identity of the next searcher loadShard returns
  swSend,      \* the event postEvents is about to send on the sink
  \* ---- shardLoader
  shards,      \* shardLoader.shards: [Names -> 0..MaxSearchers], 0 = no key
  shardsNil,   \* shardLoader.shards == nil
  closeCount,  \* [SearcherIds -> Nat]: calls of Close on each searcher
  held,        \* permits of shardLoader.throttle each goroutine has put in
  loopPc,      \* position of the goroutine running shardLoader.loop
  loopEv,      \* the event loop() is handing to replace
  clPc,        \* position of the caller of dirSearcher.Close
  \* ---- one call of shardLoader.Search
  sPc,         \* position of the caller of Search
  totalMax,    \* opts.TotalMaxMatchCount of the call
  snapshot,    \* the searchers getShards() returned
  gPc,         \* [SearcherIds -> position of the per-shard goroutine]
  all,         \* buffered results of the channel "all"
  aggFiles,    \* aggregate.Files
  aggMatch,    \* aggregate.Stats.MatchCount
  aggCrashes,  \* aggregate.Stats.Crashes
  received,    \* results the aggregation loop has taken from "all"
  cancelCalls, \* calls of cancel() made by the aggregation loop
  ctxDone,     \* whether childCtx has been cancelled
  retErr,      \* whether Search returned an error
  gRes,        \* [SearcherIds -> what the shard's goroutine put on "all"]
  hist,        \* what the last rescan saw and sent (read by properties only)
  \* ---- SortFilesByScore on its own
  sortIn,      \* the list handed to SortFilesByScore
  sortOut,     \* the list after the call
  sortPc,      \* "in" before the call, "out" after it
  \* ---- one call of indexData.Search on one shard
  mt,          \* the match tree newMatchTree built for the query
  atoms,       \* the mutable fields of the leaves of mt, by leaf id
  atoms0,      \* atoms as newMatchTree left them (read by properties only)
  fileBranchMasks, \* indexData.fileBranchMasks: the branch mask of each doc
  opts,        \* the SearchOptions after SetDefaults
  shardCtxDone, \* whether the context handed to indexData.Search is done
  canceled,    \* the local variable canceled
  lastDoc,     \* the local variable lastDoc
  res,         \* the SearchResult under construction
  importantMatchCount, \* the local variable importantMatchCount
  dPc,         \* "loop" in the document loop, "done", "panic", "off"
  prepared,    \* the arguments of the calls of mt.prepare, in order
  gathered,    \* input and output of the last call of gatherMatches
  \* ---- one call of contentProvider.fillMatch
  fmData,      \* the content of the document: a sequence of "x" and "nl"
  fmCand,      \* the candidateMatch: offset, matchSz, fileName
  fmStart,     \* the local variable start
  fmEnd,       \* the local variable end
  fmMatch,     \* the Match returned
  fmPc,        \* "call", "loop", "done", "panic", "off"
  \* ---- one call of indexData.List
  ilQuery,     \* the argument q
  ilName,      \* d.repoMetaData.Name, a sequence of characters
  ilOut,       \* the RepoList and the error returned
  ilPc,        \* "call", "done", "off"
  \* ---- one call of shardLoader.List
  slShards,    \* what List of each shard does: panic, error or a RepoList
  slLocked,    \* the read lock is held
  slSent,      \* the shards whose goroutine has sent its result
  slAll,       \* the channel all
  slI,         \* the loop variable i
  slCrashes,   \* the local variable crashes
  slUniq,      \* the map uniq, as a function from names to Stats
  slNames,     \* the slice names
  slOut,       \* the RepoList and the error returned
  slPc,        \* "call", "recv", "done", "err", "off"
  \* ---- one zoekt.IndexBuilder
  ib,          \* the IndexBuilder: its fields
  ibLast,      \* the last call made on it: its arguments and what it returned
  ibLeft,      \* the number of calls still to be made
  \* ---- one call of IndexBuilder.Write
  wrW,         \* the writer: the bytes written so far, as chunks, and w.off
  wrToc,       \* the indexTOC: offset and size of each section started
  wrFails,     \* json.Marshal fails
  wrPc,        \* the section about to be written, "toc", "done", "err", "off"
  \* ---- one build.Builder
  bb,          \* the Builder: opts, todo, size, nextShardNum, buildError
  bbBuilt,     \* the calls of buildShard: the documents and the shard number
  bbRunning,   \* the shard numbers whose goroutine has not ended
  bbLast,      \* the last call of Add: its document and its effect
  bbLeft,      \* the number of calls of Add still to be made
  bbDir,       \* the shard files of the repository in the index directory
  bbFin,       \* the call of Finish: "off", "wait", or what it returned
  bbFailed,    \* the shard numbers whose buildShard returned an error
  \* ---- one call of writeShard
  wsh,         \* the directory, the open file and the position of the call
  \* ---- one call of RegexpToQuery
  rq,          \* the regexp, the text and the query
  \* ---- one call of LowerRegexp
  lr,          \* the regexp given and the regexp returned
  \* ---- one gerritFilterLoader
  gl           \* its wrappers, the events received and forwarded, and the
               \* sharded searcher behind it: table, throttle, positions

fsVars == <<disk, fsLeft, fsEvents>>
swVars == <<swShards, swPc, diskTS, todo, selQuit, quitField, quitClosed,
            sink, sinkClosed, nextId, swSend>>
ldVars == <<shards, shardsNil, closeCount, held, loopPc, loopEv, clPc>>
srVars == <<sPc, totalMax, snapshot, gPc, all, aggFiles, aggMatch,
            aggCrashes, received, cancelCalls, ctxDone, retErr, gRes>>
sortVars == <<sortIn, sortOut, sortPc>>
dsVars == <<mt, atoms, atoms0, fileBranchMasks, opts, shardCtxDone, canceled,
            lastDoc, res, importantMatchCount, dPc, prepared, gathered>>
fmVars == <<fmData, fmCand, fmStart, fmEnd, fmMatch, fmPc>>
ilVars == <<ilQuery, ilName, ilOut, ilPc>>
slVars == <<slShards, slLocked, slSent, slAll, slI, slCrashes, slUniq,
            slNames, slOut, slPc>>
listVars == <<ilVars, slVars>>
ibVars == <<ib, ibLast, ibLeft>>
wrVars == <<wrW, wrToc, wrFails, wrPc>>
bbVars == <<bb, bbBuilt, bbRunning, bbLast, bbLeft, bbDir, bbFin,
           bbFailed>>
toolVars == <<wsh, rq, lr, gl>>
buildVars == <<ibVars, wrVars, bbVars, toolVars>>
ixVars == <<dsVars, fmVars, listVars, buildVars>>
\* Everything but the variables of indexData.Search, of fillMatch, of
\* indexData.List and of shardLoader.List.
notDsVars == <<fsVars, swVars, ldVars, srVars, hist, sortVars, fmVars,
               listVars, buildVars>>
notFmVars == <<fsVars, swVars, ldVars, srVars, hist, sortVars, dsVars,
               listVars, buildVars>>
notIlVars == <<fsVars, swVars, ldVars, srVars, hist, sortVars, dsVars,
               fmVars, slVars, buildVars>>
notSlVars == <<fsVars, swVars, ldVars, srVars, hist, sortVars, dsVars,
               fmVars, ilVars, buildVars>>
\* Everything but the variables of the index builders.
notBuildVars == <<fsVars, swVars, ldVars, srVars, hist, sortVars, dsVars,
                  fmVars, listVars, toolVars>>
\* Everything but the variables of writeShard, RegexpToQuery, LowerRegexp
\* and the gerritFilterLoader.
notToolVars == <<fsVars, swVars, ldVars, srVars, hist, sortVars, dsVars,
                 fmVars, listVars, ibVars, wrVars, bbVars>>
vars == <<fsVars, swVars, ldVars, srVars, hist, sortVars, ixVars>>

\* ------------------------------------------------------------ helpers
\* The keys of a map[string]T modelled as [Names -> 0..n].
Keys(m) == {k \in Names : m[k] # 0}

NoFiles == [k \in Names |-> 0]

ShardLoadEvent(k, s) == [Name |-> k, Searcher |-> s]

NoEvent == ShardLoadEvent("a", 0)

\* A send on the sink channel can proceed (the buffer has room).
SinkReady == Len(sink) < SinkCap

\* What a rescan saw and did: s.shards and the directory when scan() ran,
\* the next searcher identity at that time, and per name the evict events
\* sent, the load events sent, the searcher sent and the failed loads.
Rescan(known, seen, id) ==
  [scanned |-> TRUE, known |-> known, seen |-> seen, mark |-> id,
   evict |-> NoFiles, load |-> NoFiles, sent |-> NoFiles, failed |-> {}]

NoHist == [Rescan(NoFiles, NoFiles, 1) EXCEPT !.scanned = FALSE]

\* ------------------------------------------------------------ file system
\* The environment creates, rewrites or removes one shard file; fsnotify
\* queues a notification on watcher.Events.
FsChange ==
  /\ fsLeft > 0
  /\ \E k \in Names, m \in 0..MaxMtime :
       /\ m # disk[k]
       /\ disk' = [disk EXCEPT ![k] = m]
  /\ fsLeft' = fsLeft - 1
  /\ fsEvents' = fsEvents + 1
  /\ UNCHANGED <<swVars, ldVars, srVars, hist, sortVars, ixVars>>

\* ------------------------------------------------------------ ShardWatcher
\* The names in the order filepath.Glob returns them.
SortedNames == <<"a", "b">>

\* The first of the names ks in that order.
FirstName(ks) ==
  SortedNames[CHOOSE i \in DOMAIN SortedNames :
                /\ SortedNames[i] \in ks
                /\ \A j \in 1..i - 1 : SortedNames[j] \notin ks]

\* scan(), up to its loop: the *.zoekt files filepath.Glob finds, or an
\* error (FALSE) when the glob matches nothing.
scan == [ok |-> Keys(disk) # {}, fs |-> Keys(disk)]

\* The goroutine (re-)enters the select statement: the channel operands,
\* s.quit among them, are evaluated now.
EnterSelect ==
  /\ swPc' = "select"
  /\ selQuit' = quitField
  /\ diskTS' = NoFiles
  /\ todo' = {}

\* Where postEvents stands once the first range loop has `left` keys to
\* visit: still in that loop, at the start of the second one, or at its end
\* when scan() returned an empty map.
AfterEvict(left, ts) ==
  IF left # {} THEN /\ swPc' = "evict"
                    /\ todo' = left
                    /\ diskTS' = ts
                    /\ selQuit' = selQuit
  ELSE IF Keys(ts) # {}
  THEN /\ swPc' = "load"
       /\ todo' = Keys(ts)
       /\ diskTS' = ts
       /\ selQuit' = selQuit
  ELSE EnterSelect

\* Where postEvents stands once the second range loop has `left` keys to
\* visit: still in that loop, or back in watch()'s select.
AfterLoad(left) ==
  IF left # {} THEN /\ swPc' = "load"
                    /\ todo' = left
                    /\ UNCHANGED <<diskTS, selQuit>>
  ELSE EnterSelect

\* update(): scan() globs the directory and, unless the glob is empty,
\* starts its loop over the files found.
update ==
  IF scan.ok
  THEN /\ swPc' = "lstat"
       /\ todo' = scan.fs
       /\ diskTS' = NoFiles
       /\ UNCHANGED <<selQuit, hist>>
  ELSE /\ hist' = Rescan(swShards, NoFiles, nextId)
       /\ EnterSelect

\* watch(): the update the goroutine runs before entering its loop.
WatchFirstUpdate ==
  /\ swPc = "start"
  /\ update
  /\ UNCHANGED <<swShards, quitField, quitClosed, sink, sinkClosed, nextId,
                 swSend>>
  /\ UNCHANGED <<fsVars, ldVars, srVars, sortVars, ixVars>>

\* watch(): select takes a notification from watcher.Events and runs update.
WatchEvent ==
  /\ swPc = "select"
  /\ fsEvents > 0
  /\ fsEvents' = fsEvents - 1
  /\ update
  /\ UNCHANGED <<swShards, quitField, quitClosed, sink, sinkClosed, nextId,
                 swSend>>
  /\ UNCHANGED <<disk, fsLeft, ldVars, srVars, sortVars, ixVars>>

\* watch(): select takes an error from watcher.Errors, logs it and goes
\* round the loop.
WatchError ==
  /\ swPc = "select"
  /\ EnterSelect
  /\ UNCHANGED <<swShards, quitField, quitClosed, sink, sinkClosed, nextId,
                 swSend>>
  /\ UNCHANGED <<fsVars, ldVars, srVars, hist, sortVars, ixVars>>

\* scan(), one iteration of its loop: os.Lstat of the next file found; a
\* file that is gone by now is left out of the map.  After the last file
\* scan() returns and update() starts postEvents.
ScanLstat ==
  /\ swPc = "lstat"
  /\ \E k \in {FirstName(todo)} :
       IF todo \ {k} # {}
       THEN /\ swPc' = "lstat"
            /\ todo' = todo \ {k}
            /\ diskTS' = [diskTS EXCEPT ![k] = disk[k]]
            /\ UNCHANGED <<selQuit, hist>>
       ELSE /\ hist' = Rescan(swShards, [diskTS EXCEPT ![k] = disk[k]],
                              nextId)
            /\ AfterEvict(Keys(swShards), [diskTS EXCEPT ![k] = disk[k]])
  /\ UNCHANGED <<swShards, quitField, quitClosed, sink, sinkClosed, nextId,
                 swSend>>
  /\ UNCHANGED <<fsVars, ldVars, srVars, sortVars, ixVars>>

\* postEvents, first loop: one key of s.shards; a key that is not on disk is
\* announced with a nil Searcher and deleted.
PostEvict ==
  /\ swPc = "evict"
  /\ \E k \in todo :
       IF diskTS[k] = 0
       THEN /\ SinkReady
            /\ sink' = Append(sink, ShardLoadEvent(k, 0))
            /\ swShards' = [swShards EXCEPT ![k] = 0]
            /\ hist' = [hist EXCEPT !.evict[k] = @ + 1]
            /\ AfterEvict(todo \ {k}, diskTS)
       ELSE /\ UNCHANGED <<sink, swShards, hist>>
            /\ AfterEvict(todo \ {k}, diskTS)
  /\ UNCHANGED <<quitField, quitClosed, sinkClosed, nextId, swSend>>
  /\ UNCHANGED <<fsVars, ldVars, srVars, sortVars, ixVars>>

\* A test that loads new files only and overlooks a changed mtime.
NeedsLoadNewOnly(known, ts, k) == known[k] = 0

\* postEvents, second loop: whether key k of diskTS is (re)loaded.
NeedsLoad(known, ts, k) == known[k] = 0 \/ known[k] # ts[k]

\* A postEvents that records the modification time before it looks at the
\* error of loadShard.
afterLoadAlways(known, ts, k, ok) == [known EXCEPT ![k] = ts[k]]

\* postEvents, second loop: s.shards after loadShard returned for key k.
afterLoad(known, ts, k, ok) ==
  IF ok THEN [known EXCEPT ![k] = ts[k]] ELSE known

\* postEvents, second loop: one key of diskTS; a new or changed file is
\* loaded and, if loadShard succeeds, recorded; its event is then to be
\* sent.
PostLoad ==
  /\ swPc = "load"
  /\ \E k \in todo :
       IF NeedsLoad(swShards, diskTS, k)
       THEN \E ok \in BOOLEAN :
              /\ swShards' = afterLoad(swShards, diskTS, k, ok)
              /\ IF ok
                 THEN /\ swSend' = ShardLoadEvent(k, nextId)
                      /\ nextId' = nextId + 1
                      /\ swPc' = "send"
                      /\ todo' = todo \ {k}
                      /\ UNCHANGED <<diskTS, selQuit, hist>>
                 ELSE /\ hist' = [hist EXCEPT !.failed = @ \cup {k}]
                      /\ UNCHANGED <<nextId, swSend>>
                      /\ AfterLoad(todo \ {k})
       ELSE /\ UNCHANGED <<swShards, nextId, swSend, hist>>
            /\ AfterLoad(todo \ {k})
  /\ UNCHANGED <<sink, quitField, quitClosed, sinkClosed>>
  /\ UNCHANGED <<fsVars, ldVars, srVars, sortVars, ixVars>>

\* postEvents, second loop: the send of the event of the searcher just
\* loaded, which waits for room in the sink.
PostSend ==
  /\ swPc = "send"
  /\ SinkReady
  /\ sink' = Append(sink, swSend)
  /\ hist' = [hist EXCEPT !.load[swSend.Name] = @ + 1,
                          !.sent[swSend.Name] = swSend.Searcher]
  /\ swSend' = NoEvent
  /\ AfterLoad(todo)
  /\ UNCHANGED <<swShards, nextId, quitField, quitClosed, sinkClosed>>
  /\ UNCHANGED <<fsVars, ldVars, srVars, sortVars, ixVars>>

\* watch(): select receives from the closed quit channel; the goroutine
\* returns and its deferred close(s.sink) runs.  A nil channel is never
\* ready.
WatchQuit ==
  /\ swPc = "select"
  /\ selQuit = "chan"
  /\ quitClosed
  /\ swPc' = "done"
  /\ sinkClosed' = TRUE
  /\ UNCHANGED <<swShards, diskTS, todo, selQuit, quitField, quitClosed,
                 sink, nextId, swSend>>
  /\ UNCHANGED <<fsVars, ldVars, srVars, hist, sortVars, ixVars>>

\* ------------------------------------------------------------ shardLoader
\* The goroutines that take permits of shardLoader.throttle.
Procs == {"loop", "closer", "search"}

RECURSIVE SumHeld(_, _)
SumHeld(h, ps) == IF ps = {} THEN 0
                  ELSE LET p == CHOOSE q \in ps : TRUE
                       IN h[p] + SumHeld(h, ps \ {p})

\* Number of elements buffered in the throttle channel.
ThrottleLen == SumHeld(held, Procs)

\* cap(s.throttle), the number of permits lock() takes and unlock() gives back.
ThrottleCap == NumCPU

\* One send on s.throttle by goroutine p: blocks while the buffer is full.
ThrottleSend(p) ==
  /\ ThrottleLen < NumCPU
  /\ held' = [held EXCEPT ![p] = @ + 1]

\* One receive from s.throttle by goroutine p.
ThrottleRecv(p) ==
  /\ ThrottleLen > 0
  /\ held' = [held EXCEPT ![p] = @ - 1]

\* The searchers stored in the table.
Loaded(tbl) == {tbl[k] : k \in Keys(tbl)}

\* Close() is called on every searcher of cs.
CloseAll(cs) ==
  closeCount' = [s \in SearcherIds |->
                   IF s \in cs THEN closeCount[s] + 1 ELSE closeCount[s]]

\* replace() that returns on a dropped table without closing the searcher.
replaceClosesOldOnly(tbl, isNil, key, shard) ==
  IF isNil THEN {}
  ELSE {tbl[key]} \ {0}

\* replace(): the searchers it closes.
replaceCloses(tbl, isNil, key, shard) ==
  IF isNil THEN {shard} \ {0}
  ELSE {tbl[key]} \ {0}

\* replace() that installs a searcher but forgets to delete on a nil one.
replaceShardsNoDelete(tbl, isNil, key, shard) ==
  IF isNil \/ shard = 0 THEN tbl
  ELSE [tbl EXCEPT ![key] = shard]

\* replace(): the table it leaves.
replaceShards(tbl, isNil, key, shard) ==
  IF isNil THEN tbl
  ELSE [tbl EXCEPT ![key] = shard]

\* loop(): receive the next event from the channel.
LoopRecv ==
  /\ loopPc = "recv"
  /\ sink # <<>>
  /\ loopEv' = Head(sink)
  /\ sink' = Tail(sink)
  /\ loopPc' = "lock"
  /\ UNCHANGED <<swShards, swPc, diskTS, todo, selQuit, quitField,
                 quitClosed, sinkClosed, nextId,
                 swSend>>
  /\ UNCHANGED <<shards, shardsNil, closeCount, held, clPc>>
  /\ UNCHANGED <<fsVars, srVars, hist, sortVars, ixVars>>

\* loop(): the channel is closed and drained; the range loop ends.
LoopExit ==
  /\ loopPc = "recv"
  /\ sink = <<>>
  /\ sinkClosed
  /\ loopPc' = "done"
  /\ UNCHANGED <<shards, shardsNil, closeCount, held, loopEv, clPc>>
  /\ UNCHANGED <<fsVars, swVars, srVars, hist, sortVars, ixVars>>

\* replace() -> lock(): one iteration of the loop that fills the throttle.
ReplaceLock ==
  /\ loopPc = "lock"
  /\ ThrottleSend("loop")
  /\ loopPc' = IF held'["loop"] = ThrottleCap THEN "body" ELSE "lock"
  /\ UNCHANGED <<shards, shardsNil, closeCount, loopEv, clPc>>
  /\ UNCHANGED <<fsVars, swVars, srVars, hist, sortVars, ixVars>>

\* replace(): the statements between lock() and the deferred unlock().
ReplaceBody ==
  /\ loopPc = "body"
  /\ CloseAll(replaceCloses(shards, shardsNil, loopEv.Name, loopEv.Searcher))
  /\ shards' = replaceShards(shards, shardsNil, loopEv.Name, loopEv.Searcher)
  /\ loopPc' = "unlock"
  /\ UNCHANGED <<shardsNil, held, loopEv, clPc>>
  /\ UNCHANGED <<fsVars, swVars, srVars, hist, sortVars, ixVars>>

\* replace() -> unlock(): one iteration of the loop that drains the throttle.
ReplaceUnlock ==
  /\ loopPc = "unlock"
  /\ ThrottleRecv("loop")
  /\ loopPc' = IF held'["loop"] = 0 THEN "recv" ELSE "unlock"
  /\ loopEv' = IF held'["loop"] = 0 THEN NoEvent ELSE loopEv
  /\ UNCHANGED <<shards, shardsNil, closeCount, clPc>>
  /\ UNCHANGED <<fsVars, swVars, srVars, hist, sortVars, ixVars>>

\* dirSearcher.Close -> ShardWatcher.Close: close(sw.quit).
WatcherCloseQuit ==
  /\ clPc = "idle"
  /\ IF quitField # "nil"
     THEN /\ quitClosed' = TRUE
          /\ clPc' = "setnil"
     ELSE /\ quitClosed' = quitClosed
          /\ clPc' = "lock"
  /\ UNCHANGED <<swShards, swPc, diskTS, todo, selQuit, quitField, sink,
                 sinkClosed, nextId,
                 swSend>>
  /\ UNCHANGED <<shards, shardsNil, closeCount, held, loopPc, loopEv>>
  /\ UNCHANGED <<fsVars, srVars, hist, sortVars, ixVars>>

\* dirSearcher.Close -> ShardWatcher.Close: sw.quit = nil.
WatcherCloseNil ==
  /\ clPc = "setnil"
  /\ quitField' = "nil"
  /\ clPc' = "lock"
  /\ UNCHANGED <<swShards, swPc, diskTS, todo, selQuit, quitClosed, sink,
                 sinkClosed, nextId,
                 swSend>>
  /\ UNCHANGED <<shards, shardsNil, closeCount, held, loopPc, loopEv>>
  /\ UNCHANGED <<fsVars, srVars, hist, sortVars, ixVars>>

\* dirSearcher.Close -> shardLoader.Close -> lock(): one permit.
CloseLock ==
  /\ clPc = "lock"
  /\ ThrottleSend("closer")
  /\ clPc' = IF held'["closer"] = ThrottleCap THEN "body" ELSE "lock"
  /\ UNCHANGED <<shards, shardsNil, closeCount, loopPc, loopEv>>
  /\ UNCHANGED <<fsVars, swVars, srVars, hist, sortVars, ixVars>>

\* shardLoader.Close: close every searcher of the table, drop the table.
CloseBody ==
  /\ clPc = "body"
  /\ CloseAll(IF shardsNil THEN {} ELSE Loaded(shards))
  /\ shards' = NoFiles
  /\ shardsNil' = TRUE
  /\ clPc' = "unlock"
  /\ UNCHANGED <<held, loopPc, loopEv>>
  /\ UNCHANGED <<fsVars, swVars, srVars, hist, sortVars, ixVars>>

\* shardLoader.Close -> unlock(): one permit; after the last, Close returns.
CloseUnlock ==
  /\ clPc = "unlock"
  /\ ThrottleRecv("closer")
  /\ clPc' = IF held'["closer"] = 0 THEN "done" ELSE "unlock"
  /\ UNCHANGED <<shards, shardsNil, closeCount, loopPc, loopEv>>
  /\ UNCHANGED <<fsVars, swVars, srVars, hist, sortVars, ixVars>>

\* ------------------------------------------------------------ sorting
\* A FileMatch, reduced to its Score and an identity.
FileMatch(id, score) == [Id |-> id, Score |-> score]

\* A Less that orders by increasing Score.
LessAscending(ms, i, j) == ms[i].Score < ms[j].Score

\* fileMatchSlice.Less on positions i and j of ms.
Less(ms, i, j) == ms[i].Score > ms[j].Score

\* fileMatchSlice.Swap.
Swap(ms, i, j) == [ms EXCEPT ![i] = ms[j], ![j] = ms[i]]

\* sort.insertionSort, inner loop: sink element j towards position a.
RECURSIVE InsertInner(_, _, _)
InsertInner(ms, j, a) ==
  IF j > a /\ Less(ms, j, j - 1)
  THEN InsertInner(Swap(ms, j, j - 1), j - 1, a)
  ELSE ms

\* sort.insertionSort on the whole slice, outer loop from position i.
RECURSIVE InsertionSort(_, _)
InsertionSort(ms, i) ==
  IF i > Len(ms) THEN ms
  ELSE InsertionSort(InsertInner(ms, i, 1), i + 1)

\* The gap of the Shell sort pass that sort.quickSort runs on a short slice.
ShellGap == 6

\* sort.quickSort (Go up to 1.18) on a slice of at most 12 elements: the
\* Shell sort pass, from position i.
RECURSIVE ShellPass(_, _)
ShellPass(ms, i) ==
  IF i > Len(ms) THEN ms
  ELSE ShellPass(IF Less(ms, i, i - ShellGap) THEN Swap(ms, i, i - ShellGap)
                 ELSE ms, i + 1)

\* sort.Sort(fileMatchSlice(ms)) for len(ms) <= 12.  The order of equal
\* elements is not specified by package sort; the outcomes are those of the
\* toolchains: insertion sort alone (Go 1.19 and later), or the Shell sort
\* pass followed by insertion sort (Go up to 1.18).
sortFilesByScore(ms) ==
  {InsertionSort(ms, 2), InsertionSort(ShellPass(ms, ShellGap + 1), 2)}

\* The call of SortFilesByScore on an arbitrary list.
SortCall ==
  /\ sortPc = "in"
  /\ sortOut' \in sortFilesByScore(sortIn)
  /\ sortPc' = "out"
  /\ UNCHANGED <<sortIn, fsVars, swVars, ldVars, srVars, hist, ixVars>>

\* ------------------------------------------------------------ Search
\* A zoekt.SearchResult reduced to Files, Stats.MatchCount and Stats.Crashes.
SearchResult(files, mc, cr) == [Files |-> files, MatchCount |-> mc, Crashes |-> cr]

NoResult == [kind |-> "none", sr |-> SearchResult(<<>>, 0, 0)]

\* What Searcher.Search of shard s may return without panicking: no file,
\* or one file with m matches (and score m); or an error.
ShardReturns(s) ==
  {[kind |-> "ok", sr |-> SearchResult(<<>>, 0, 0)]}
  \cup {[kind |-> "ok", sr |-> SearchResult(<<FileMatch(s, m)>>, m, 0)] :
          m \in 1..MaxShardMatch}
  \cup {[kind |-> "err", sr |-> SearchResult(<<>>, 0, 0)]}

\* A crash record that forgets to count the crash.
CrashResultUncounted == [kind |-> "panic", sr |-> SearchResult(<<>>, 0, 0)]

\* The record the deferred recover() sends for a shard that panicked.
CrashResult == [kind |-> "panic", sr |-> SearchResult(<<>>, 0, 1)]

\* Capacity of the per-query throttle of Search.
QueryThrottleCap == 10 * NumCPU

Running == {s \in SearcherIds : gPc[s] = "run"}

\* An aggregation channel that is one slot short of the shards.
AllCapOneShort == Cardinality(snapshot) - 1

\* Capacity of the aggregation channel: make(chan res, len(shards)).
AllCap == Cardinality(snapshot)

\* Search: rlock().
SearchRlock ==
  /\ sPc = "idle"
  /\ ThrottleSend("search")
  /\ \E t \in 0..MaxTotal : totalMax' = t
  /\ sPc' = "locked"
  /\ UNCHANGED <<snapshot, gPc, all, aggFiles, aggMatch, aggCrashes,
                 received, cancelCalls, ctxDone, retErr, gRes>>
  /\ UNCHANGED <<shards, shardsNil, closeCount, loopPc, loopEv, clPc>>
  /\ UNCHANGED <<fsVars, swVars, hist, sortVars, ixVars>>

\* getShards(): the searchers of the table.
getShards == IF shardsNil THEN {} ELSE Loaded(shards)

\* Search: snapshot the table, make the channel and the child context, start
\* one goroutine per shard.
SearchStart ==
  /\ sPc = "locked"
  /\ snapshot' = getShards
  /\ gPc' = [s \in SearcherIds |-> IF s \in getShards THEN "ready" ELSE "none"]
  /\ sPc' = "agg"
  /\ UNCHANGED <<totalMax, all, aggFiles, aggMatch, aggCrashes, received,
                 cancelCalls, ctxDone, retErr, gRes>>
  /\ UNCHANGED <<fsVars, swVars, ldVars, hist, sortVars, ixVars>>

\* Per-shard goroutine: take a slot of the per-query throttle and call
\* s.Search.
ShardBegin ==
  \E s \in SearcherIds :
    /\ gPc[s] = "ready"
    /\ Cardinality(Running) < QueryThrottleCap
    /\ gPc' = [gPc EXCEPT ![s] = "run"]
    /\ UNCHANGED <<sPc, totalMax, snapshot, all, aggFiles, aggMatch,
                   aggCrashes, received, cancelCalls, ctxDone, retErr, gRes>>
    /\ UNCHANGED <<fsVars, swVars, ldVars, hist, sortVars, ixVars>>

\* Per-shard goroutine: s.Search returns and its result is sent on "all", or
\* it panics and the deferred function sends the crash record; either way
\* the slot of the per-query throttle is given back.
ShardEnd ==
  \E s \in SearcherIds :
    /\ gPc[s] = "run"
    /\ Len(all) < AllCap
    /\ \E r \in ShardReturns(s) \cup {CrashResult} :
         /\ all' = Append(all, r)
         /\ gRes' = [gRes EXCEPT ![s] = r]
    /\ gPc' = [gPc EXCEPT ![s] = "sent"]
    /\ UNCHANGED <<sPc, totalMax, snapshot, aggFiles, aggMatch, aggCrashes,
                   received, cancelCalls, ctxDone, retErr>>
    /\ UNCHANGED <<fsVars, swVars, ldVars, hist, sortVars, ixVars>>

\* Stats.Add on one counter of Stats: the counters are summed.
StatsAdd(a, b) == a + b

\* The test that decides whether the aggregation loop cancels childCtx.
OverCap(mc, cap) == mc > cap

\* Search returns: the deferred cancel() and runlock() run.
SearchDefers ==
  /\ ctxDone' = TRUE
  /\ ThrottleRecv("search")
  /\ sPc' = "done"

\* Search: one iteration of the aggregation loop.
SearchCollect ==
  /\ sPc = "agg"
  /\ received < Cardinality(snapshot)
  /\ all # <<>>
  /\ LET r == Head(all) IN
       /\ all' = Tail(all)
       /\ received' = received + 1
       /\ IF r.kind = "err"
          THEN /\ retErr' = TRUE
               /\ SearchDefers
               /\ UNCHANGED <<aggFiles, aggMatch, aggCrashes, cancelCalls>>
          ELSE /\ aggFiles' = aggFiles \o r.sr.Files
               /\ aggMatch' = StatsAdd(aggMatch, r.sr.MatchCount)
               /\ aggCrashes' = StatsAdd(aggCrashes, r.sr.Crashes)
               /\ IF cancelCalls = 0 /\ OverCap(aggMatch', totalMax)
                  THEN /\ cancelCalls' = cancelCalls + 1
                       /\ ctxDone' = TRUE
                  ELSE UNCHANGED <<cancelCalls, ctxDone>>
               /\ UNCHANGED <<sPc, held, retErr>>
  /\ UNCHANGED <<totalMax, snapshot, gPc, gRes>>
  /\ UNCHANGED <<shards, shardsNil, closeCount, loopPc, loopEv, clPc>>
  /\ UNCHANGED <<fsVars, swVars, hist, sortVars, ixVars>>

\* Search: every shard has answered; sort the files and return.
SearchReturn ==
  /\ sPc = "agg"
  /\ received = Cardinality(snapshot)
  /\ aggFiles' \in sortFilesByScore(aggFiles)
  /\ SearchDefers
  /\ UNCHANGED <<totalMax, snapshot, gPc, all, aggMatch, aggCrashes,
                 received, cancelCalls, retErr, gRes>>
  /\ UNCHANGED <<shards, shardsNil, closeCount, loopPc, loopEv, clPc>>
  /\ UNCHANGED <<fsVars, swVars, hist, sortVars, ixVars>>

\* ------------------------------------------------------------ specifications
\* The directories NewShardWatcher accepts: its first scan() must succeed.
StartDisks == {d \in [Names -> {0, 1}] : Keys(d) # {}}

\* NewShardWatcher has returned and the goroutine of watch() is started.
InitWatcher ==
  /\ disk \in StartDisks
  /\ fsLeft = MaxFsChanges
  /\ fsEvents = 0
  /\ swShards = NoFiles
  /\ swPc = "start"
  /\ diskTS = NoFiles
  /\ todo = {}
  /\ selQuit = "chan"
  /\ quitField = "chan"
  /\ quitClosed = FALSE
  /\ sink = <<>>
  /\ sinkClosed = FALSE
  /\ nextId = 1
  /\ swSend = NoEvent
  /\ hist = NoHist

\* NewShardedSearcher has returned and the goroutine of loop() is started.
InitLoader ==
  /\ shards = NoFiles
  /\ shardsNil = FALSE
  /\ closeCount = [s \in SearcherIds |-> 0]
  /\ held = [p \in Procs |-> 0]
  /\ loopPc = "recv"
  /\ loopEv = NoEvent
  /\ clPc = "idle"

\* No call of Search has been made (pc is "idle") or will be made ("off").
InitSearch(pc) ==
  /\ sPc = pc
  /\ totalMax = 0
  /\ snapshot = {}
  /\ gPc = [s \in SearcherIds |-> "none"]
  /\ gRes = [s \in SearcherIds |-> NoResult]
  /\ all = <<>>
  /\ aggFiles = <<>>
  /\ aggMatch = 0
  /\ aggCrashes = 0
  /\ received = 0
  /\ cancelCalls = 0
  /\ ctxDone = FALSE
  /\ retErr = FALSE

NoSort ==
  /\ sortIn = <<>>
  /\ sortOut = <<>>
  /\ sortPc = "off"

\* No call of indexData.Search is made.
NoDocSearch ==
  /\ mt = <<>>
  /\ atoms = <<>>
  /\ atoms0 = <<>>
  /\ fileBranchMasks = <<>>
  /\ opts = <<>>
  /\ shardCtxDone = FALSE
  /\ canceled = FALSE
  /\ lastDoc = -1
  /\ res = <<>>
  /\ importantMatchCount = 0
  /\ dPc = "off"
  /\ prepared = <<>>
  /\ gathered = <<>>

\* No call of fillMatch is made.
NoFill ==
  /\ fmData = <<>>
  /\ fmCand = <<>>
  /\ fmStart = 0
  /\ fmEnd = 0
  /\ fmMatch = <<>>
  /\ fmPc = "off"

\* No call of indexData.List is made.
NoRepoList ==
  /\ ilQuery = <<>>
  /\ ilName = <<>>
  /\ ilOut = <<>>
  /\ ilPc = "off"

\* No call of shardLoader.List is made.
NoShardList ==
  /\ slShards = <<>>
  /\ slLocked = FALSE
  /\ slSent = {}
  /\ slAll = <<>>
  /\ slI = 0
  /\ slCrashes = 0
  /\ slUniq = <<>>
  /\ slNames = <<>>
  /\ slOut = <<>>
  /\ slPc = "off"

NoList == NoRepoList /\ NoShardList

\* No IndexBuilder is in use.
NoIndexBuilder ==
  /\ ib = <<>>
  /\ ibLast = <<>>
  /\ ibLeft = 0

\* No call of IndexBuilder.Write is made.
NoWrite ==
  /\ wrW = <<>>
  /\ wrToc = <<>>
  /\ wrFails = FALSE
  /\ wrPc = "off"

\* No build.Builder is in use.
NoBuilder ==
  /\ bb = <<>>
  /\ bbBuilt = <<>>
  /\ bbRunning = {}
  /\ bbLast = <<>>
  /\ bbLeft = 0
  /\ bbDir = {}
  /\ bbFin = "off"
  /\ bbFailed = {}

\* No call of writeShard, RegexpToQuery or LowerRegexp is made, and there
\* is no gerritFilterLoader.
NoTools ==
  /\ wsh = <<>>
  /\ rq = <<>>
  /\ lr = <<>>
  /\ gl = <<>>

NoBuild == NoIndexBuilder /\ NoWrite /\ NoBuilder /\ NoTools

\* Nothing is done on a single shard, and nothing is built.
NoIndex == NoDocSearch /\ NoFill /\ NoList /\ NoBuild

\* Directories that differ from directory d in at most one file.
OneChange(d) ==
  {e \in [Names -> 0..MaxMtime] :
     Cardinality({k \in Names : e[k] # d[k]}) <= 1}

\* The directory searcher once the files found at start are loaded (the
\* watcher waits in its select, loop() waits for an event), the directory
\* has changed since and fsnotify has queued a notification; a caller of
\* Search and a caller of Close are about to run.
Init ==
  /\ swShards \in StartDisks
  /\ disk \in OneChange(swShards)
  /\ fsLeft = 0
  /\ fsEvents = 1
  /\ swPc = "select"
  /\ diskTS = NoFiles
  /\ todo = {}
  /\ selQuit = "chan"
  /\ quitField = "chan"
  /\ quitClosed = FALSE
  /\ sink = <<>>
  /\ sinkClosed = FALSE
  /\ nextId = Cardinality(Keys(swShards)) + 1
  /\ swSend = NoEvent
  /\ hist = NoHist
  /\ shards = [k \in Names |->
                 IF swShards[k] = 0 THEN 0
                 ELSE IF k = "a" THEN 1 ELSE Cardinality(Keys(swShards))]
  /\ shardsNil = FALSE
  /\ closeCount = [s \in SearcherIds |-> 0]
  /\ held = [p \in Procs |-> 0]
  /\ loopPc = "recv"
  /\ loopEv = NoEvent
  /\ clPc = "idle"
  /\ InitSearch("idle")
  /\ NoSort
  /\ NoIndex

WatcherStep == WatchFirstUpdate \/ WatchEvent \/ ScanLstat \/ PostEvict
               \/ PostLoad \/ PostSend \/ WatchQuit

LoopStep == LoopRecv \/ LoopExit \/ ReplaceLock \/ ReplaceBody \/ ReplaceUnlock

CloserStep == WatcherCloseQuit \/ WatcherCloseNil \/ CloseLock \/ CloseBody \/ CloseUnlock

SearchStep == SearchRlock \/ SearchStart \/ ShardBegin \/ ShardEnd
              \/ SearchCollect \/ SearchReturn

Next ==
  \/ WatchEvent \/ WatchError \/ ScanLstat \/ PostEvict \/ PostLoad
  \/ PostSend \/ WatchQuit
  \/ LoopRecv \/ LoopExit \/ ReplaceLock \/ ReplaceBody \/ ReplaceUnlock
  \/ WatcherCloseQuit \/ WatcherCloseNil \/ CloseLock \/ CloseBody \/ CloseUnlock
  \/ SearchRlock \/ SearchStart \/ ShardBegin \/ ShardEnd
  \/ SearchCollect \/ SearchReturn

Spec == Init /\ [][Next]_vars

\* The directory searcher without callers of Search.
InitWatch ==
  InitWatcher /\ InitLoader /\ InitSearch("off") /\ NoSort /\ NoIndex

NextWatch ==
  \/ FsChange
  \/ WatchFirstUpdate \/ WatchEvent \/ WatchError \/ ScanLstat \/ PostEvict
  \/ PostLoad \/ PostSend \/ WatchQuit
  \/ LoopRecv \/ LoopExit \/ ReplaceLock \/ ReplaceBody \/ ReplaceUnlock
  \/ WatcherCloseQuit \/ WatcherCloseNil \/ CloseLock \/ CloseBody \/ CloseUnlock

SpecWatch == InitWatch /\ [][NextWatch]_vars

\* The same, with every goroutine that can take a step eventually taking
\* one (the Go scheduler runs every runnable goroutine).
FairSpecWatch ==
  /\ SpecWatch
  /\ WF_vars(WatcherStep)
  /\ WF_vars(LoopStep)
  /\ WF_vars(CloserStep)

\* SortFilesByScore applied to every list of at most MaxFiles files.
SortInputs ==
  UNION {[1..n -> {FileMatch(0, sc) : sc \in 0..MaxScore}] : n \in 0..MaxFiles}

\* No directory searcher exists: no watcher, no loader, no caller.
NoDirectory ==
  /\ disk = NoFiles
  /\ fsLeft = 0
  /\ fsEvents = 0
  /\ swShards = NoFiles
  /\ swPc = "done"
  /\ diskTS = NoFiles
  /\ todo = {}
  /\ selQuit = "chan"
  /\ quitField = "chan"
  /\ quitClosed = FALSE
  /\ sink = <<>>
  /\ sinkClosed = FALSE
  /\ nextId = 1
  /\ swSend = NoEvent
  /\ hist = NoHist
  /\ InitLoader
  /\ InitSearch("off")

InitSort ==
  /\ NoDirectory
  /\ NoIndex
  /\ \E ms \in SortInputs :
       sortIn = [i \in 1..Len(ms) |-> FileMatch(i, ms[i].Score)]
  /\ sortOut = <<>>
  /\ sortPc = "in"

NextSort == SortCall

SpecSort == InitSort /\ [][NextSort]_vars

\* ------------------------------------------------------------ match tree
\* A document of a shard is its index 0..docCount-1; fileBranchMasks[d + 1]
\* is the branch mask of document d.
docCount == Len(fileBranchMasks)

\* The largest uint32.  TLC's integers end at 2^31 - 1, so the uint32 of the
\* model is one bit short of Go's; its arithmetic wraps in the same way.
maxUInt32 == 2147483647

\* x + y and x - y in uint32.
uint32Add(x, y) == IF x > maxUInt32 - y THEN x - (maxUInt32 - y) - 1 ELSE x + y

uint32Sub(x, y) == IF x >= y THEN x - y ELSE maxUInt32 - (y - x) + 1

\* Bitwise and of two masks.
RECURSIVE BitAnd(_, _)
BitAnd(a, b) ==
  IF a = 0 \/ b = 0 THEN 0
  ELSE (a % 2) * (b % 2) + 2 * BitAnd(a \div 2, b \div 2)

\* A candidateMatch: the document, the byte interval, whether it lies in the
\* file name, and whether the bytes at the interval equal the pattern (what
\* candidateMatch.matchContent finds) and lie between word boundaries (what
\* matchScore finds).
candidateMatch(file, off, sz, fn, real, word) ==
  [file |-> file, byteOffset |-> off, byteMatchSz |-> sz, fileName |-> fn,
   real |-> real, word |-> word]

\* A node of a match tree: kind is "and", "or", "not", "noVisit", "substr",
\* "regexp", "branch", "doc" or "brute"; a leaf names its fields in atoms.
Leaf(kind, id) == [kind |-> kind, id |-> id, ch |-> <<>>]

Inner(kind, ch) == [kind |-> kind, id |-> 0, ch |-> ch]

\* The fields of a leaf: those of substrMatchTree (cands, coversContent,
\* fileName, current, contEvaluated), regexpMatchTree (fileName, reEvaluated,
\* found, and hits: what regexp.FindAllIndex returns on each document),
\* branchQueryMatchTree (mask, firstDone, docID), docMatchTree (docs, current)
\* and bruteForceMatchTree (firstDone, docID).
Atom(cands, covers, fn, hits, mask, docs) ==
  [cands |-> cands, coversContent |-> covers, fileName |-> fn,
   current |-> <<>>, contEvaluated |-> FALSE,
   hits |-> hits, reEvaluated |-> FALSE, found |-> <<>>,
   mask |-> mask, firstDone |-> FALSE, docID |-> 0, docs |-> docs]

\* bruteForceMatchTree.prepare.
bruteForcePrepare(a, doc) == [a EXCEPT !.docID = doc, !.firstDone = TRUE]

\* docMatchTree.prepare, first loop: drop the ids below doc.
RECURSIVE skipDocs(_, _)
skipDocs(ds, doc) ==
  IF Len(ds) > 0 /\ ds[1] < doc THEN skipDocs(Tail(ds), doc) ELSE ds

\* docMatchTree.prepare, second loop: count the leading ids equal to doc.
RECURSIVE countDocs(_, _, _)
countDocs(ds, doc, i) ==
  IF i < Len(ds) /\ ds[i + 1] = doc THEN countDocs(ds, doc, i + 1) ELSE i

\* docMatchTree.prepare.
docPrepare(a, doc) ==
  LET ds == skipDocs(a.docs, doc)
      i == countDocs(ds, doc, 0)
  IN [a EXCEPT !.current = SubSeq(ds, 1, i), !.docs = SubSeq(ds, i + 1, Len(ds))]

\* regexpMatchTree.prepare.
regexpPrepare(a, doc) ==
  bruteForcePrepare([a EXCEPT !.found = <<>>, !.reEvaluated = FALSE], doc)

\* substrMatchTree.prepare, first loop: drop the candidates below nextDoc.
RECURSIVE skipCands(_, _)
skipCands(cs, doc) ==
  IF Len(cs) > 0 /\ cs[1].file < doc THEN skipCands(Tail(cs), doc) ELSE cs

\* substrMatchTree.prepare, second loop: count the candidates of nextDoc.
RECURSIVE countCands(_, _, _)
countCands(cs, doc, i) ==
  IF i < Len(cs) /\ cs[i + 1].file = doc THEN countCands(cs, doc, i + 1) ELSE i

\* substrMatchTree.prepare.
substrPrepare(a, doc) ==
  LET cs == skipCands(a.cands, doc)
      i == countCands(cs, doc, 0)
  IN [a EXCEPT !.current = SubSeq(cs, 1, i),
               !.cands = SubSeq(cs, i + 1, Len(cs)),
               !.contEvaluated = FALSE]

\* branchQueryMatchTree.prepare.
branchPrepare(a, doc) == [a EXCEPT !.firstDone = TRUE, !.docID = doc]

\* prepare of a leaf, by its type.
leafPrepare(kind, a, doc) ==
  CASE kind = "substr" -> substrPrepare(a, doc)
    [] kind = "regexp" -> regexpPrepare(a, doc)
    [] kind = "branch" -> branchPrepare(a, doc)
    [] kind = "doc" -> docPrepare(a, doc)
    [] kind = "brute" -> bruteForcePrepare(a, doc)

\* matchTree.prepare: and, or, not and noVisit prepare their children in
\* order; st is the table of leaf fields, and the result the table after.
RECURSIVE prepare(_, _, _)
RECURSIVE prepareChildren(_, _, _)
prepareChildren(ch, st, doc) ==
  IF ch = <<>> THEN st
  ELSE prepareChildren(Tail(ch), prepare(Head(ch), st, doc), doc)

prepare(t, st, doc) ==
  IF t.kind \in {"and", "or", "not", "noVisit"}
  THEN prepareChildren(t.ch, st, doc)
  ELSE [st EXCEPT ![t.id] = leafPrepare(t.kind, @, doc)]

\* docMatchTree.nextDoc.
docNextDoc(a) == IF Len(a.docs) = 0 THEN maxUInt32 ELSE a.docs[1]

\* bruteForceMatchTree.nextDoc (regexpMatchTree embeds it).
bruteForceNextDoc(a) ==
  IF ~a.firstDone THEN 0 ELSE uint32Add(a.docID, 1)

\* substrMatchTree.nextDoc.
substrNextDoc(a) == IF Len(a.cands) > 0 THEN a.cands[1].file ELSE maxUInt32

\* branchQueryMatchTree.nextDoc, the loop from document i.
RECURSIVE branchScan(_, _)
branchScan(a, i) ==
  IF i < Len(fileBranchMasks)
  THEN IF BitAnd(a.mask, fileBranchMasks[i + 1]) # 0 THEN i
       ELSE branchScan(a, i + 1)
  ELSE maxUInt32

\* branchQueryMatchTree.nextDoc.
branchNextDoc(a) ==
  branchScan(a, IF a.firstDone THEN uint32Add(a.docID, 1) ELSE 0)

\* nextDoc of a leaf, by its type.
leafNextDoc(kind, a) ==
  CASE kind = "substr" -> substrNextDoc(a)
    [] kind = "regexp" -> bruteForceNextDoc(a)
    [] kind = "branch" -> branchNextDoc(a)
    [] kind = "doc" -> docNextDoc(a)
    [] kind = "brute" -> bruteForceNextDoc(a)

RECURSIVE nextDoc(_, _)
\* andMatchTree.nextDoc, the loop over children ch with max so far.
RECURSIVE andNextDocLoop(_, _, _)
andNextDocLoop(ch, st, max) ==
  IF ch = <<>> THEN max
  ELSE LET m == nextDoc(Head(ch), st)
       IN andNextDocLoop(Tail(ch), st, IF m > max THEN m ELSE max)

\* andMatchTree.nextDoc.
andNextDoc(t, st) == andNextDocLoop(t.ch, st, 0)

\* orMatchTree.nextDoc, the loop over children ch with min so far.
RECURSIVE orNextDocLoop(_, _, _)
orNextDocLoop(ch, st, min) ==
  IF ch = <<>> THEN min
  ELSE LET m == nextDoc(Head(ch), st)
       IN orNextDocLoop(Tail(ch), st, IF m < min THEN m ELSE min)

\* An orMatchTree.nextDoc that takes the largest of its children's answers.
orNextDocMax(t, st) == andNextDocLoop(t.ch, st, 0)

\* orMatchTree.nextDoc.
orNextDoc(t, st) == orNextDocLoop(t.ch, st, maxUInt32)

\* notMatchTree.nextDoc.
notNextDoc(t, st) == 0

\* matchTree.nextDoc; noVisitMatchTree has the method of the tree it embeds.
nextDoc(t, st) ==
  CASE t.kind = "and" -> andNextDoc(t, st)
    [] t.kind = "or" -> orNextDoc(t, st)
    [] t.kind = "not" -> notNextDoc(t, st)
    [] t.kind = "noVisit" -> nextDoc(t.ch[1], st)
    [] OTHER -> leafNextDoc(t.kind, st[t.id])


\* A map[matchTree]bool: the nodes it maps to true and those it maps to
\* false.  A node is identified by its path from the root: the positions of
\* the children taken.
NoKnown == [T |-> {}, F |-> {}]

\* known[mt] = v.
KnownSet(known, p, v) ==
  IF v THEN [T |-> known.T \cup {p}, F |-> known.F \ {p}]
  ELSE [T |-> known.T \ {p}, F |-> known.F \cup {p}]

\* What matches and evalMatchTree return, with the map as they leave it.
Verdict(v, ok, known) == [v |-> v, ok |-> ok, known |-> known]

\* docMatchTree.matches.
docMatches(a) == <<Len(a.current) > 0, TRUE>>

\* bruteForceMatchTree.matches.
bruteForceMatches(a) == <<TRUE, TRUE>>

\* branchQueryMatchTree.matches.
branchMatches(a) == <<BitAnd(fileBranchMasks[a.docID + 1], a.mask) # 0, TRUE>>

\* regexpMatchTree.matches.
regexpMatches(a) ==
  IF ~a.reEvaluated THEN <<FALSE, FALSE>> ELSE <<Len(a.found) > 0, TRUE>>

\* substrMatchTree.matches.
substrMatches(a) ==
  IF Len(a.current) = 0 THEN <<FALSE, TRUE>>
  ELSE <<TRUE, a.coversContent \/ a.contEvaluated>>

\* matches of a leaf, by its type.
leafMatches(kind, a) ==
  CASE kind = "substr" -> substrMatches(a)
    [] kind = "regexp" -> regexpMatches(a)
    [] kind = "branch" -> branchMatches(a)
    [] kind = "doc" -> docMatches(a)
    [] kind = "brute" -> bruteForceMatches(a)

RECURSIVE evalMatchTree(_, _, _, _)
\* andMatchTree.matches, the loop from child i with sure so far.
RECURSIVE andMatchesLoop(_, _, _, _, _, _)
andMatchesLoop(known, t, p, st, i, sure) ==
  IF i > Len(t.ch) THEN Verdict(TRUE, sure, known)
  ELSE LET r == evalMatchTree(known, t.ch[i], Append(p, i), st)
       IN IF r.ok /\ ~r.v THEN Verdict(FALSE, TRUE, r.known)
          ELSE andMatchesLoop(r.known, t, p, st, i + 1, sure /\ r.ok)

\* andMatchTree.matches.
andMatches(known, t, p, st) == andMatchesLoop(known, t, p, st, 1, TRUE)

\* orMatchTree.matches, the loop from child i with matches and sure so far.
RECURSIVE orMatchesLoop(_, _, _, _, _, _, _)
orMatchesLoop(known, t, p, st, i, m, sure) ==
  IF i > Len(t.ch) THEN Verdict(m, sure, known)
  ELSE LET r == evalMatchTree(known, t.ch[i], Append(p, i), st)
       IN orMatchesLoop(r.known, t, p, st, i + 1,
                        IF r.ok THEN m \/ r.v ELSE m, sure /\ r.ok)

\* orMatchTree.matches.
orMatches(known, t, p, st) == orMatchesLoop(known, t, p, st, 1, FALSE, TRUE)

\* A negation that is sure whatever its child says.
notMatchesSure(known, t, p, st) ==
  LET r == evalMatchTree(known, t.ch[1], Append(p, 1), st)
  IN Verdict(~r.v, TRUE, r.known)

\* notMatchTree.matches.
notMatches(known, t, p, st) ==
  LET r == evalMatchTree(known, t.ch[1], Append(p, 1), st)
  IN Verdict(~r.v, r.ok, r.known)

\* matchTree.matches of the node t at path p.  A noVisitMatchTree embeds its
\* matchTree, so its matches is the method of the embedded tree, called
\* without passing through evalMatchTree.
RECURSIVE matches(_, _, _, _)
matches(known, t, p, st) ==
  CASE t.kind = "and" -> andMatches(known, t, p, st)
    [] t.kind = "or" -> orMatches(known, t, p, st)
    [] t.kind = "not" -> notMatches(known, t, p, st)
    [] t.kind = "noVisit" -> matches(known, t.ch[1], Append(p, 1), st)
    [] OTHER -> LET r == leafMatches(t.kind, st[t.id])
                IN Verdict(r[1], r[2], known)

\* evalMatchTree.
evalMatchTree(known, t, p, st) ==
  IF p \in known.T \cup known.F THEN Verdict(p \in known.T, TRUE, known)
  ELSE LET r == matches(known, t, p, st)
       IN Verdict(r.v, r.ok, IF r.ok THEN KnownSet(r.known, p, r.v)
                             ELSE r.known)

\* collectAtoms: the leaves of t, in the order f is called on them.
RECURSIVE collectAtoms(_)
RECURSIVE collectAtomsOf(_)
collectAtomsOf(ch) ==
  IF ch = <<>> THEN <<>>
  ELSE collectAtoms(Head(ch)) \o collectAtomsOf(Tail(ch))

collectAtoms(t) ==
  IF t.kind \in {"and", "or", "noVisit", "not"} THEN collectAtomsOf(t.ch)
  ELSE <<t>>

\* visitMatches: the leaves f is called on, in order.  known[ch] of a node
\* the map does not hold is false.
RECURSIVE visitMatches(_, _, _)
RECURSIVE visitChildren(_, _, _, _)
visitChildren(t, known, p, i) ==
  IF i > Len(t.ch) THEN <<>>
  ELSE (IF Append(p, i) \in known.T
        THEN visitMatches(t.ch[i], known, Append(p, i)) ELSE <<>>)
       \o visitChildren(t, known, p, i + 1)

visitMatches(t, known, p) ==
  CASE t.kind \in {"and", "or"} -> visitChildren(t, known, p, 1)
    [] t.kind \in {"not", "noVisit"} -> <<>>
    [] OTHER -> <<t>>

\* An evalContentMatches that forgets to mark the leaf as evaluated.
evalContentMatchesUnmarked(a) ==
  [a EXCEPT !.current = IF ~a.coversContent
                        THEN SelectSeq(a.current, LAMBDA m : m.real)
                        ELSE a.current]

\* contentProvider.evalContentMatches on the fields of a substrMatchTree.
\* File contents are single-byte runes, so findOffset leaves byteOffset at
\* the rune offset.
evalContentMatches(a) ==
  [a EXCEPT !.current = IF ~a.coversContent
                        THEN SelectSeq(a.current, LAMBDA m : m.real)
                        ELSE a.current,
            !.contEvaluated = TRUE]

\* contentProvider.evalRegexpMatches on the fields of a regexpMatchTree, the
\* provider being set to document doc.
evalRegexpMatches(a, doc) ==
  [a EXCEPT !.found = SelectSeq(a.hits, LAMBDA m : m.file = doc),
            !.reEvaluated = TRUE]


\* ------------------------------------------------------------ gatherMatches
\* The candidates gatherMatches collects from the visited leaves, in order.
RECURSIVE candsOfLeaves(_, _)
candsOfLeaves(ls, st) ==
  IF ls = <<>> THEN <<>>
  ELSE (CASE Head(ls).kind = "substr" -> st[Head(ls).id].current
          [] Head(ls).kind = "regexp" -> st[Head(ls).id].found
          [] OTHER -> <<>>)
       \o candsOfLeaves(Tail(ls), st)

\* gatherMatches, the two loops that drop the file-name candidates when a
\* content candidate exists.
trimFileNames(cands) ==
  LET foundContentMatch == \E i \in 1..Len(cands) : ~cands[i].fileName
  IN SelectSeq(cands, LAMBDA c : ~foundContentMatch \/ ~c.fileName)

\* sort.Sort(sortByOffsetSlice(cands)): the candidates in an order in which
\* sortByOffsetSlice.Less holds of no element and its predecessor.  Package
\* sort leaves the order of candidates of equal offset open.
sortByOffset(cands) ==
  {r \in {[i \in 1..Len(cands) |-> cands[f[i]]] :
            f \in Permutations(1..Len(cands))} :
     \A i \in 1..Len(r) - 1 : ~(r[i + 1].byteOffset < r[i].byteOffset)}

\* A merge step that fuses two candidates only when they overlap.
mergeStepOverlapOnly(out, c) ==
  LET last == out[Len(out)]
      lastEnd == uint32Add(last.byteOffset, last.byteMatchSz)
      end == uint32Add(c.byteOffset, c.byteMatchSz)
  IN IF out = <<>> THEN <<c>>
     ELSE IF lastEnd > c.byteOffset
     THEN IF end > lastEnd
          THEN [out EXCEPT ![Len(out)].byteMatchSz =
                             uint32Sub(end, last.byteOffset)]
          ELSE out
     ELSE Append(out, c)

\* gatherMatches, one iteration of the merge loop: out so far, candidate c.
mergeStep(out, c) ==
  LET last == out[Len(out)]
      lastEnd == uint32Add(last.byteOffset, last.byteMatchSz)
      end == uint32Add(c.byteOffset, c.byteMatchSz)
  IN IF out = <<>> THEN <<c>>
     ELSE IF lastEnd >= c.byteOffset
     THEN IF end > lastEnd
          THEN [out EXCEPT ![Len(out)].byteMatchSz =
                             uint32Sub(end, last.byteOffset)]
          ELSE out
     ELSE Append(out, c)

\* gatherMatches, the merge loop over the sorted candidates.
RECURSIVE mergeLoop(_, _)
mergeLoop(out, cands) ==
  IF cands = <<>> THEN out
  ELSE mergeLoop(mergeStep(out, Head(cands)), Tail(cands))

\* gatherMatches on candidates already collected: the results it can return.
mergeCands(cands) ==
  {mergeLoop(<<>>, sorted) : sorted \in sortByOffset(trimFileNames(cands))}

\* gatherMatches(mt, known): the results it can return.
gatherMatches(t, known, st) ==
  mergeCands(candsOfLeaves(visitMatches(t, known, <<>>), st))

\* ------------------------------------------------------------ gatherBranches
\* A branch is named by its bit in the branch masks: d.branchNames[b] is the
\* name of the branch whose mask is b.
RECURSIVE branchesOfLeaves(_, _)
branchesOfLeaves(ls, st) ==
  IF ls = <<>> THEN <<>>
  ELSE (IF Head(ls).kind = "branch" THEN <<st[Head(ls).id].mask>> ELSE <<>>)
       \o branchesOfLeaves(Tail(ls), st)

\* gatherBranches, the loop over the bits of the document's mask.
RECURSIVE branchesOfMask(_, _)
branchesOfMask(mask, id) ==
  IF mask = 0 THEN <<>>
  ELSE (IF mask % 2 # 0 THEN <<id>> ELSE <<>>)
       \o branchesOfMask(mask \div 2, uint32Add(id, id))

\* A gatherBranches that lists the document's branches whatever was visited.
gatherBranchesOfDoc(docID, t, known, st) ==
  branchesOfMask(fileBranchMasks[docID + 1], 1)

\* indexData.gatherBranches.
gatherBranches(docID, t, known, st) ==
  LET ls == visitMatches(t, known, <<>>)
      foundBranchQuery == \E i \in 1..Len(ls) : ls[i].kind = "branch"
  IN IF foundBranchQuery THEN branchesOfLeaves(ls, st)
     ELSE branchesOfMask(fileBranchMasks[docID + 1], 1)


\* ------------------------------------------------------------ indexData.Search
\* The defaults SetDefaults fills in.
defaultShardMaxMatchCount == 100000

defaultShardMaxImportantMatch == 10

\* SearchOptions.SetDefaults.
SetDefaults(o) ==
  LET smm == IF o.ShardMaxMatchCount = 0 THEN defaultShardMaxMatchCount
             ELSE o.ShardMaxMatchCount
      smi == IF o.ShardMaxImportantMatch = 0 THEN defaultShardMaxImportantMatch
             ELSE o.ShardMaxImportantMatch
  IN [ShardMaxMatchCount |-> smm,
      TotalMaxMatchCount |-> IF o.TotalMaxMatchCount = 0 THEN 10 * smm
                             ELSE o.TotalMaxMatchCount,
      ShardMaxImportantMatch |-> smi,
      TotalMaxImportantMatch |-> IF o.TotalMaxImportantMatch = 0 THEN 10 * smi
                                 ELSE o.TotalMaxImportantMatch]

\* The score constants of search.go, and those of the scoring of files.
scorePartialWordMatch == 5000

scoreWordMatch == 50000

scoreFactorAtomMatch == 400

scoreImportantThreshold == 2000

\* The Stats of a SearchResult, reduced to the counters Search sets.
Stats(considered, skipped, mc, fc, ngrams) ==
  [FilesConsidered |-> considered, FilesSkipped |-> skipped,
   MatchCount |-> mc, FileCount |-> fc, NgramMatches |-> ngrams]

\* The leaves Search collects with collectAtoms.
fileAtoms(t, st) ==
  SelectSeq(collectAtoms(t), LAMBDA l : l.kind = "substr" /\ st[l.id].fileName)

substrAtoms(t, st) ==
  SelectSeq(collectAtoms(t), LAMBDA l : l.kind = "substr" /\ ~st[l.id].fileName)

regexpAtoms(t) == SelectSeq(collectAtoms(t), LAMBDA l : l.kind = "regexp")

\* res.Stats.NgramMatches after the call of collectAtoms.
RECURSIVE ngramMatches(_, _)
ngramMatches(ls, st) ==
  IF ls = <<>> THEN 0
  ELSE (IF Head(ls).kind = "substr" THEN Len(st[Head(ls).id].cands) ELSE 0)
       + ngramMatches(Tail(ls), st)

\* The loops that call evalContentMatches and evalRegexpMatches on leaves.
RECURSIVE evalContentAll(_, _)
evalContentAll(ls, st) ==
  IF ls = <<>> THEN st
  ELSE evalContentAll(Tail(ls),
                      [st EXCEPT ![Head(ls).id] = evalContentMatches(@)])

RECURSIVE evalRegexpAll(_, _, _)
evalRegexpAll(ls, st, doc) ==
  IF ls = <<>> THEN st
  ELSE evalRegexpAll(Tail(ls),
                     [st EXCEPT ![Head(ls).id] = evalRegexpMatches(@, doc)],
                     doc)

\* How the evaluation of one document ends: "no" (continue nextFileMatch),
\* "yes" (the tree matches) or "panic" (did not decide).
Decision(out, known, st) == [out |-> out, known |-> known, st |-> st]

\* Search, from known := make(...) to the last evalMatchTree, on the document
\* the tree is prepared for.
\* The last evalMatchTree of an iteration: it panics when the tree did not
\* decide.
evalDocDecide(r, st) ==
  IF ~r.ok THEN Decision("panic", r.known, st)
  ELSE IF ~r.v THEN Decision("no", r.known, st)
  ELSE Decision("yes", r.known, st)

evalDocFinal(t, known, st) ==
  evalDocDecide(evalMatchTree(known, t, <<>>, st), st)

\* The regexp atoms ra, there being some: r is what evalMatchTree says
\* before they are evaluated.
evalDocRegexpChecked(t, r, st, ra, doc) ==
  IF r.ok /\ ~r.v THEN Decision("no", r.known, st)
  ELSE evalDocFinal(t, r.known, evalRegexpAll(ra, st, doc))

evalDocRegexp(t, known, st, ra, doc) ==
  IF ra = <<>> THEN evalDocFinal(t, known, st)
  ELSE evalDocRegexpChecked(t, evalMatchTree(known, t, <<>>, st), st, ra, doc)

\* The content substring atoms, then the regexp atoms.
evalDocContent(t, known, st, doc) ==
  evalDocRegexp(t, known, evalContentAll(substrAtoms(t, st), st),
                regexpAtoms(t), doc)

\* The file-name atoms fa, there being some, have been evaluated: r is what
\* evalMatchTree says after them.
evalDocFilesChecked(t, r, st, doc) ==
  IF r.ok /\ ~r.v THEN Decision("no", r.known, st)
  ELSE evalDocContent(t, r.known, st, doc)

evalDocFiles(t, known, st, fa, doc) ==
  IF fa = <<>> THEN evalDocContent(t, known, st, doc)
  ELSE evalDocFilesChecked(
         t, evalMatchTree(known, t, <<>>, evalContentAll(fa, st)),
         evalContentAll(fa, st), doc)

\* r is what the first evalMatchTree says, on a fresh known.
evalDocFirst(t, r, st, doc) ==
  IF r.ok /\ ~r.v THEN Decision("no", r.known, st)
  ELSE evalDocFiles(t, r.known, st, fileAtoms(t, st), doc)

\* The evaluation of document doc by one iteration of the loop, the tree
\* being prepared with the leaf states st0.
evalDoc(t, st0, doc) ==
  evalDocFirst(t, evalMatchTree(NoKnown, t, <<>>, st0), st0, doc)

\* contentProvider.fillMatches: one Match for each candidate, scored by
\* matchScore.
fillMatches(cands) ==
  [i \in 1..Len(cands) |->
     [Offset |-> cands[i].byteOffset, MatchLength |-> cands[i].byteMatchSz,
      FileName |-> cands[i].fileName,
      Score |-> IF cands[i].word THEN scoreWordMatch ELSE 0]]

\* The largest Score of the matches ms.
RECURSIVE maxFileScore(_)
maxFileScore(ms) ==
  IF ms = <<>> THEN 0
  ELSE LET m == maxFileScore(Tail(ms))
       IN IF m < Head(ms).Score THEN Head(ms).Score ELSE m

\* Search: "Order by ordering in file", the scores being counted in units
\* of 1/len(LineMatches).
orderInFile(ms) ==
  [i \in 1..Len(ms) |->
     [ms[i] EXCEPT !.Score = @ * Len(ms) + Len(ms) - (i - 1)]]

\* sortMatchesByScore: the matches by decreasing Score.
sortMatchesByScore(ms) ==
  {r \in {[i \in 1..Len(ms) |-> ms[f[i]]] : f \in Permutations(1..Len(ms))} :
     \A i \in 1..Len(r) - 1 : ~(r[i + 1].Score > r[i].Score)}

\* len(d.boundaries): file d occupies [boundaries[d], boundaries[d+1]), so
\* the table has one entry more than the shard has documents.
lenBoundaries == docCount + 1

\* The FileMatch Search builds for document doc: its Score is counted in
\* units of 1/(len(d.boundaries) * totalAtomCount).
docFileMatch(doc, t, known, st, finalCands, lines) ==
  LET totalAtomCount == Len(collectAtoms(t))
      atomMatchCount == Len(visitMatches(t, known, <<>>))
      unit == lenBoundaries * totalAtomCount
  IN [Id |-> doc,
      Score |-> 10 * doc * totalAtomCount
                + atomMatchCount * scoreFactorAtomMatch * lenBoundaries
                + maxFileScore(fillMatches(finalCands)) * unit,
      Important |-> 10 * doc * totalAtomCount
                    + atomMatchCount * scoreFactorAtomMatch * lenBoundaries
                    + maxFileScore(fillMatches(finalCands)) * unit
                    > scoreImportantThreshold * unit,
      LineMatches |-> lines,
      Branches |-> gatherBranches(doc, t, known, st)]

\* The candidate Search makes of the file name when gatherMatches returns
\* nothing: it covers the whole name (one byte in this model), so that
\* matchScore finds it between two word boundaries.
fileNameCand(doc) == candidateMatch(doc, 0, 1, TRUE, TRUE, TRUE)

\* The context handed to Search is cancelled or passes its deadline.
CtxCancel ==
  /\ dPc = "loop"
  /\ ~shardCtxDone
  /\ shardCtxDone' = TRUE
  /\ UNCHANGED <<mt, atoms, atoms0, fileBranchMasks, opts, canceled, lastDoc,
                 res, importantMatchCount, dPc, prepared, gathered>>
  /\ UNCHANGED notDsVars

\* The select at the head of the loop: canceled after it.
pollCtx == canceled \/ shardCtxDone

\* A loop head that trusts the tree's nextDoc.
clampNextDocNone(nd, last) == nd

\* The document the loop turns to, nd being what mt.nextDoc() returned and
\* last the value of lastDoc (an int of 64 bits).
clampNextDoc(nd, last) == IF nd <= last THEN last + 1 ELSE nd

\* A skip test that ignores the cancellation.
skipsDocUncancelled(c, mc, imc, o) ==
  mc >= o.ShardMaxMatchCount \/ imc >= o.ShardMaxImportantMatch

\* The test that makes Search skip the document it has prepared.
skipsDoc(c, mc, imc, o) ==
  c \/ mc >= o.ShardMaxMatchCount \/ imc >= o.ShardMaxImportantMatch

\* nextDoc >= docCount: the loop ends, the files are sorted, Search returns.
DocBreak ==
  /\ dPc = "loop"
  /\ clampNextDoc(nextDoc(mt, atoms), lastDoc) >= docCount
  /\ canceled' = pollCtx
  /\ \E fs \in sortFilesByScore(res.Files) : res' = [res EXCEPT !.Files = fs]
  /\ dPc' = "done"
  /\ UNCHANGED <<mt, atoms, atoms0, fileBranchMasks, opts, shardCtxDone,
                 lastDoc, importantMatchCount, prepared, gathered>>
  /\ UNCHANGED notDsVars

\* One iteration that prepares the tree for a document and skips it.
DocSkip ==
  LET doc == clampNextDoc(nextDoc(mt, atoms), lastDoc)
  IN /\ dPc = "loop"
     /\ doc < docCount
     /\ skipsDoc(pollCtx, res.Stats.MatchCount, importantMatchCount, opts)
     /\ canceled' = pollCtx
     /\ lastDoc' = doc
     /\ atoms' = prepare(mt, atoms, doc)
     /\ prepared' = Append(prepared, doc)
     /\ res' = [res EXCEPT !.Stats.FilesConsidered = @ + 1,
                           !.Stats.FilesSkipped = @ + 1]
     /\ UNCHANGED <<mt, atoms0, fileBranchMasks, opts, shardCtxDone,
                    importantMatchCount, dPc, gathered>>
     /\ UNCHANGED notDsVars

\* The end of an iteration whose document matches: the FileMatch fm is
\* appended; collected are the candidates handed to gatherMatches and gm
\* what it returned.
DocAppend(fm, collected, gm) ==
  /\ res' = [res EXCEPT !.Files = Append(@, fm),
                        !.Stats.FilesConsidered = @ + 1,
                        !.Stats.MatchCount = @ + Len(fm.LineMatches),
                        !.Stats.FileCount = @ + 1]
  /\ importantMatchCount' = importantMatchCount + IF fm.Important THEN 1 ELSE 0
  /\ gathered' = [in |-> collected, out |-> gm]

\* The matches of document doc are filled from finalCands, sorted, and the
\* FileMatch built.
DocFill(doc, d, gm, finalCands) ==
  \E lines \in sortMatchesByScore(orderInFile(fillMatches(finalCands))) :
    DocAppend(docFileMatch(doc, mt, d.known, d.st, finalCands, lines),
              candsOfLeaves(visitMatches(mt, d.known, <<>>), d.st), gm)

\* The iteration on document doc after its evaluation ended as d.
DocDecided(doc, d) ==
  /\ atoms' = d.st
  /\ dPc' = IF d.out = "panic" THEN "panic" ELSE "loop"
  /\ IF d.out = "yes"
     THEN \E gm \in gatherMatches(mt, d.known, d.st) :
            DocFill(doc, d, gm,
                    IF gm = <<>> THEN <<fileNameCand(doc)>> ELSE gm)
     ELSE /\ res' = [res EXCEPT !.Stats.FilesConsidered = @ + 1]
          /\ UNCHANGED <<importantMatchCount, gathered>>

\* One iteration that prepares the tree for a document and evaluates it.
DocEval ==
  \E doc \in {clampNextDoc(nextDoc(mt, atoms), lastDoc)} :
    /\ dPc = "loop"
    /\ doc < docCount
    /\ ~skipsDoc(pollCtx, res.Stats.MatchCount, importantMatchCount, opts)
    /\ canceled' = pollCtx
    /\ lastDoc' = doc
    /\ prepared' = Append(prepared, doc)
    /\ DocDecided(doc, evalDoc(mt, prepare(mt, atoms, doc), doc))
    /\ UNCHANGED <<mt, atoms0, fileBranchMasks, opts, shardCtxDone>>
    /\ UNCHANGED notDsVars


\* ------------------------------------------------ the shards Search is run on
Docs == 0..MaxDocs - 1

\* What a leaf finds in one document: nothing, a candidate that the content
\* confirms ("hit"), one that it does not ("miss"), or two confirmed
\* candidates on different lines, the first between word boundaries ("two").
\* The candidates of leaf i start at byte 2 * i.
docCands(choice, d, i, fn) ==
  CASE choice = "none" -> <<>>
    [] choice = "hit" -> <<candidateMatch(d, 2 * i, 1, fn, TRUE, FALSE)>>
    [] choice = "miss" -> <<candidateMatch(d, 2 * i, 1, fn, FALSE, FALSE)>>
    [] choice = "two" -> <<candidateMatch(d, 2 * i, 1, fn, TRUE, TRUE),
                           candidateMatch(d, 2 * i + 4, 1, fn, TRUE, FALSE)>>

\* The candidates of leaf i in the documents from d on, in document order.
RECURSIVE shardCands(_, _, _, _)
shardCands(f, d, i, fn) ==
  IF d >= MaxDocs THEN <<>>
  ELSE docCands(f[d], d, i, fn) \o shardCands(f, d + 1, i, fn)

\* The documents from d on in which f finds something, in order.
RECURSIVE shardDocs(_, _)
shardDocs(f, d) ==
  IF d >= MaxDocs THEN <<>>
  ELSE (IF f[d] = "hit" THEN <<d>> ELSE <<>>) \o shardDocs(f, d + 1)

\* Where a leaf finds something: in every document, in one document, or in
\* none; cs are the kinds of finding the leaf can make.
Findings(cs) ==
  {[d \in Docs |-> c] : c \in cs}
  \cup {[d \in Docs |-> IF d = e THEN c ELSE "none"] : e \in Docs, c \in cs}
  \cup {[d \in Docs |-> "none"]}

\* The leaves newMatchTree can make at position i, with their fields: a
\* content substring that needs checking against the content, one that does
\* not, a file-name substring, a regexp, a branch, a list of documents, and
\* the leaf that matches everything.
LeafWith(kind, i, a) == [leaf |-> Leaf(kind, i), atom |-> a]

Leaves(i) ==
  {LeafWith("substr", i,
            Atom(shardCands(f, 0, i, FALSE), FALSE, FALSE, <<>>, 0, <<>>)) :
     f \in Findings({"hit", "miss"})}
  \cup
  {LeafWith("substr", i,
            Atom(shardCands(f, 0, i, FALSE), TRUE, FALSE, <<>>, 0, <<>>)) :
     f \in Findings({"two"})}
  \cup
  {LeafWith("substr", i,
            Atom(shardCands(f, 0, i, TRUE), FALSE, TRUE, <<>>, 0, <<>>)) :
     f \in Findings({"hit"})}
  \cup
  {LeafWith("regexp", i,
            Atom(<<>>, FALSE, FALSE, shardCands(f, 0, i, FALSE), 0, <<>>)) :
     f \in Findings({"hit"})}
  \cup
  {LeafWith("branch", i, Atom(<<>>, FALSE, FALSE, <<>>, m, <<>>)) : m \in {1, 2}}
  \cup
  {LeafWith("doc", i, Atom(<<>>, FALSE, FALSE, <<>>, 0, shardDocs(f, 0))) :
     f \in Findings({"hit"})}
  \cup
  {LeafWith("brute", i, Atom(<<>>, FALSE, FALSE, <<>>, 0, <<>>))}

\* A leaf, its negation, and the leaf kept out of the gathering of matches.
Wrapped(l) == {l, Inner("not", <<l>>), Inner("noVisit", <<l>>)}

\* The branch masks of the documents: the first is in both branches, the
\* others alternate between the first branch and the second.
ShardMasks == [i \in 1..MaxDocs |-> IF i = 1 THEN 3 ELSE 1 + (i % 2)]

\* The options a caller passes: zero stands for "use the default".
CallerOpts ==
  {o \in {[ShardMaxMatchCount |-> smm, TotalMaxMatchCount |-> 0,
           ShardMaxImportantMatch |-> smi, TotalMaxImportantMatch |-> 0] :
            smm \in 0..MaxShardCap, smi \in {0, 1}} :
     o.ShardMaxMatchCount = 0 \/ o.ShardMaxImportantMatch = 0}

\* Search has built the match tree and enters the document loop.
StartDocSearch(t, st, o) ==
  /\ mt = t
  /\ atoms = st
  /\ atoms0 = st
  /\ fileBranchMasks = ShardMasks
  /\ opts = SetDefaults(o)
  /\ shardCtxDone = FALSE
  /\ canceled = FALSE
  /\ lastDoc = -1
  /\ res = [Files |-> <<>>,
            Stats |-> Stats(0, 0, 0, 0, ngramMatches(collectAtoms(t), st))]
  /\ importantMatchCount = 0
  /\ dPc = "loop"
  /\ prepared = <<>>
  /\ gathered = <<>>

\* indexData.Search on every tree of one leaf or of two, the second leaf
\* possibly negated or unvisited, under every choice of options.
InitShard ==
  /\ NoDirectory
  /\ NoSort
  /\ NoFill
  /\ NoList
  /\ NoBuild
  /\ \E o \in CallerOpts :
       \/ \E l \in Leaves(1) : \E t \in Wrapped(l.leaf) :
            StartDocSearch(t, <<l.atom>>, o)
       \/ \E l1 \in Leaves(1), l2 \in Leaves(2) :
          \E t2 \in Wrapped(l2.leaf), op \in {"and", "or"} :
            StartDocSearch(Inner(op, <<l1.leaf, t2>>), <<l1.atom, l2.atom>>, o)

NextShard == CtxCancel \/ DocBreak \/ DocSkip \/ DocEval

SpecShard == InitShard /\ [][NextShard]_vars


\* ------------------------------------------ the trees gatherMatches is run on
\* The candidates of document 0 at the byte offsets offs, in increasing
\* order, each sz bytes long.
RECURSIVE candsAt(_, _, _, _)
candsAt(offs, off, sz, fn) ==
  IF off > MaxOffset THEN <<>>
  ELSE (IF off \in offs THEN <<candidateMatch(0, off, sz, fn, TRUE, FALSE)>>
        ELSE <<>>)
       \o candsAt(offs, off + 1, sz, fn)

\* Leaves with candidates in document 0 only: a substring of one or two
\* bytes found at one or two offsets, in the content or in the file name,
\* and a regexp with one match of zero to two bytes.
GatherLeaves(i) ==
  {LeafWith("substr", i,
            Atom(candsAt(offs, 0, sz, fn), TRUE, fn, <<>>, 0, <<>>)) :
     offs \in {o \in SUBSET (0..MaxOffset) : Cardinality(o) \in {1, 2}},
     sz \in {1, 2}, fn \in BOOLEAN}
  \cup
  {LeafWith("regexp", i,
            Atom(<<>>, FALSE, FALSE, candsAt({off}, 0, sz, FALSE), 0, <<>>)) :
     off \in 0..MaxOffset, sz \in 0..2}

\* indexData.Search, with default options, on trees whose leaves have their
\* candidates in the first document.
InitGather ==
  /\ NoDirectory
  /\ NoSort
  /\ NoFill
  /\ NoList
  /\ NoBuild
  /\ \E o \in {x \in CallerOpts : x.ShardMaxMatchCount = 0
                                  /\ x.ShardMaxImportantMatch = 0} :
       \/ \E l \in GatherLeaves(1) : StartDocSearch(l.leaf, <<l.atom>>, o)
       \/ \E l1 \in GatherLeaves(1), l2 \in GatherLeaves(2) :
          \E op \in {"and", "or"} :
            StartDocSearch(Inner(op, <<l1.leaf, l2.leaf>>),
                           <<l1.atom, l2.atom>>, o)

SpecGather == InitGather /\ [][NextShard]_vars


\* ------------------------------------------------- contentProvider.fillMatch
\* A document is a sequence of bytes, each a letter ("x") or a newline
\* ("nl"); byte k of the document is data[k + 1].
\* contentProvider.newlines: the offsets of the newlines, in order.
RECURSIVE newlinesFrom(_, _)
newlinesFrom(data, k) ==
  IF k >= Len(data) THEN <<>>
  ELSE (IF data[k + 1] = "nl" THEN <<k>> ELSE <<>>) \o newlinesFrom(data, k + 1)

newlines(data) == newlinesFrom(data, 0)

\* candidateMatch.line: the number, the start and the end of the line the
\* match starts on, found in the newline table nls by binary search for the
\* first newline at or after the match offset.
line(m, nls, fileSize) ==
  LET idx == Cardinality({n \in 1..Len(nls) : nls[n] < m.offset})
  IN [num |-> idx + 1,
      start |-> IF idx > 0 THEN nls[idx] + 1 ELSE 0,
      end |-> IF idx < Len(nls) THEN nls[idx + 1] ELSE fileSize]

\* bytes.IndexByte(data[from:], '\n'): the index of the first newline of
\* the slice, counted from the start of the slice, or -1.
IndexByte(data, from) ==
  LET hits == {k \in from..Len(data) - 1 : data[k + 1] = "nl"}
  IN IF hits = {} THEN -1
     ELSE (CHOOSE k \in hits : \A j \in hits : k <= j) - from

\* byteClass: letters and digits against everything else.
byteClass(b) == IF b = "x" THEN "alnum" ELSE "other"

\* matchScore on a Match whose Line has the bytes ln; panics stands for the
\* log.Panicf of an end beyond the line.
matchScore(ln, lineOff, matchLength) ==
  LET startBoundary ==
        lineOff < Len(ln)
        /\ (lineOff = 0 \/ byteClass(ln[lineOff]) # byteClass(ln[lineOff + 1]))
      end == lineOff + matchLength
      endBoundary ==
        end > 0 /\ (end = Len(ln) \/ byteClass(ln[end]) # byteClass(ln[end + 1]))
  IN [panics |-> end > Len(ln),
      score |-> IF end > Len(ln) THEN 0
                ELSE IF startBoundary /\ endBoundary THEN scoreWordMatch
                ELSE IF startBoundary \/ endBoundary THEN scorePartialWordMatch
                ELSE 0]

\* The Match fillMatch returns.
Match(off, start, end, num, lineOff, len, ln, fn, score) ==
  [Offset |-> off, LineStart |-> start, LineEnd |-> end, LineNum |-> num,
   LineOff |-> lineOff, MatchLength |-> len, Line |-> ln, FileName |-> fn,
   Score |-> score]

\* fillMatch on a file-name candidate: the line is the file name, which
\* fmData holds for such a candidate.
FillName ==
  /\ fmPc = "call"
  /\ fmCand.fileName
  /\ LET score == matchScore(fmData, fmCand.offset, fmCand.matchSz)
     IN IF score.panics
        THEN fmPc' = "panic" /\ UNCHANGED fmMatch
        ELSE /\ fmPc' = "done"
             /\ fmMatch' = Match(fmCand.offset, 0, 0, 0, fmCand.offset,
                                 fmCand.matchSz, fmData, TRUE, score.score)
  /\ UNCHANGED <<fmData, fmCand, fmStart, fmEnd>>
  /\ UNCHANGED notFmVars

\* fillMatch on a content candidate, up to the loop: the call of m.line.
FillLine ==
  /\ fmPc = "call"
  /\ ~fmCand.fileName
  /\ LET l == line(fmCand, newlines(fmData), Len(fmData))
     IN /\ fmStart' = l.start
        /\ fmEnd' = l.end
        /\ fmMatch' = [LineNum |-> l.num]
  /\ fmPc' = "loop"
  /\ UNCHANGED <<fmData, fmCand>>
  /\ UNCHANGED notFmVars

\* One iteration of the loop that extends the line.
FillExtend ==
  /\ fmPc = "loop"
  /\ fmEnd < Len(fmData) /\ fmCand.offset + fmCand.matchSz > fmEnd
  /\ LET r == IndexByte(fmData, fmEnd + 1)
     IN fmEnd' = IF r = -1 THEN Len(fmData) ELSE r
  /\ UNCHANGED <<fmData, fmCand, fmStart, fmMatch, fmPc>>
  /\ UNCHANGED notFmVars

\* The loop has ended: the Match is built, its Line cut out of the content
\* (a slice whose start lies after its end panics) and scored.
FillReturn ==
  /\ fmPc = "loop"
  /\ ~(fmEnd < Len(fmData) /\ fmCand.offset + fmCand.matchSz > fmEnd)
  /\ LET ln == SubSeq(fmData, fmStart + 1, fmEnd)
         lineOff == fmCand.offset - fmStart
         score == matchScore(ln, lineOff, fmCand.matchSz)
     IN IF fmStart > fmEnd \/ score.panics
        THEN fmPc' = "panic" /\ UNCHANGED fmMatch
        ELSE /\ fmPc' = "done"
             /\ fmMatch' = Match(fmCand.offset, fmStart, fmEnd,
                                 fmMatch.LineNum, lineOff, fmCand.matchSz,
                                 ln, FALSE, score.score)
  /\ UNCHANGED <<fmData, fmCand, fmStart, fmEnd>>
  /\ UNCHANGED notFmVars

\* fillMatch on every candidate that lies within a document of at most
\* MaxData bytes.
InitFill ==
  /\ NoDirectory
  /\ NoSort
  /\ NoDocSearch
  /\ NoList
  /\ NoBuild
  /\ \E n \in 1..MaxData :
       /\ fmData \in [1..n -> {"x", "nl"}]
       /\ \E off \in 0..n - 1, fn \in BOOLEAN :
          \E sz \in 1..n - off :
            fmCand = [offset |-> off, matchSz |-> sz, fileName |-> fn]
  /\ fmStart = 0
  /\ fmEnd = 0
  /\ fmMatch = <<>>
  /\ fmPc = "call"

NextFill == FillName \/ FillLine \/ FillExtend \/ FillReturn

SpecFill == InitFill /\ [][NextFill]_vars


\* ------------------------------------------------------------ indexData.List
\* The queries: constants, repository and content atoms, and And, Or and
\* Not over them.  Strings are sequences of characters.
Const(b) == [kind |-> "const", Value |-> b]
Repo(p) == [kind |-> "repo", Pattern |-> p]
Substring(p) == [kind |-> "substr", Pattern |-> p]
Not(q) == [kind |-> "not", Child |-> q]
And(ch) == [kind |-> "and", Children |-> ch]
Or(ch) == [kind |-> "or", Children |-> ch]

\* strings.Contains(s, sub).
Contains(s, sub) ==
  \E k \in 0..Len(s) - Len(sub) : SubSeq(s, k + 1, k + Len(sub)) = sub

\* The query.Map call of simplify: every Repo atom becomes the constant
\* that says whether the repository name contains its pattern.
RECURSIVE evalRepos(_, _)
evalRepos(name, q) ==
  CASE q.kind = "repo" -> Const(Contains(name, q.Pattern))
    [] q.kind = "not" -> Not(evalRepos(name, q.Child))
    [] q.kind \in {"and", "or"} ->
         [q EXCEPT !.Children =
            [k \in 1..Len(q.Children) |-> evalRepos(name, q.Children[k])]]
    [] OTHER -> q

\* query.Simplify, as far as it decides whether its result is a constant:
\* Not of a constant and of a Not, an And with a false child, an Or with a
\* true child, the dropping of identity constants, an And or Or left with
\* no child or one, and the empty Substring.
RECURSIVE Simplify(_)
Simplify(q) ==
  CASE q.kind = "substr" -> IF q.Pattern = <<>> THEN Const(TRUE) ELSE q
    [] q.kind = "not" ->
         LET c == Simplify(q.Child)
         IN IF c.kind = "const" THEN Const(~c.Value)
            ELSE IF c.kind = "not" THEN c.Child
            ELSE Not(c)
    [] q.kind \in {"and", "or"} ->
         LET cs == [k \in 1..Len(q.Children) |-> Simplify(q.Children[k])]
             absorbing == (q.kind = "or")
             IsConst(c) == c.kind = "const"
             rest == SelectSeq(cs, LAMBDA c : ~IsConst(c))
         IN IF \E k \in 1..Len(cs) : IsConst(cs[k]) /\ cs[k].Value = absorbing
            THEN Const(absorbing)
            ELSE IF rest = <<>> THEN Const(~absorbing)
            ELSE IF Len(rest) = 1 THEN rest[1]
            ELSE [q EXCEPT !.Children = rest]
    [] OTHER -> q

\* indexData.simplify for a shard of the repository called name.
simplify(name, q) == Simplify(evalRepos(name, q))

\* d.repoListEntry.
repoListEntry(name) == [Name |-> name]

\* What a List returns: a RepoList (nil or not) and an error (nil or not).
ListResult(isNil, repos, crashes, err) ==
  [nil |-> isNil, Repos |-> repos, Crashes |-> crashes, err |-> err]

\* List that answers a query that is no constant with the empty list.
indexDataListEmpty(name, q) ==
  LET c == simplify(name, q)
  IN ListResult(FALSE,
                IF c.kind = "const" /\ c.Value THEN <<repoListEntry(name)>>
                ELSE <<>>, 0, FALSE)

\* indexData.List on a shard of the repository called name.
indexDataList(name, q) ==
  LET c == simplify(name, q)
  IN IF c.kind # "const" THEN ListResult(TRUE, <<>>, 0, TRUE)
     ELSE ListResult(FALSE,
                     IF c.Value THEN <<repoListEntry(name)>> ELSE <<>>,
                     0, FALSE)

\* The call of indexData.List.
ListCall ==
  /\ ilPc = "call"
  /\ ilOut' = indexDataList(ilName, ilQuery)
  /\ ilPc' = "done"
  /\ UNCHANGED <<ilQuery, ilName>>
  /\ UNCHANGED notIlVars

\* The atoms and the repository names that List is tried on.
RepoNames == {<<"a">>, <<"a", "b">>}
QueryAtoms ==
  {Const(TRUE), Const(FALSE), Substring(<<>>), Substring(<<"a">>)}
    \cup {Repo(p) : p \in {<<>>, <<"a">>, <<"b">>, <<"b", "a">>}}

\* The queries that nest And, Or and Not at most d deep.
RECURSIVE Queries(_)
Queries(d) ==
  IF d = 0 THEN QueryAtoms
  ELSE LET sub == Queries(d - 1)
       IN sub \cup {Not(q) : q \in sub}
              \cup {And(<<q1, q2>>) : q1 \in sub, q2 \in sub}
              \cup {Or(<<q1, q2>>) : q1 \in sub, q2 \in sub}

InitList ==
  /\ NoDirectory
  /\ NoSort
  /\ NoDocSearch
  /\ NoFill
  /\ NoShardList
  /\ NoBuild
  /\ ilQuery \in Queries(MaxQueryDepth)
  /\ ilName \in RepoNames
  /\ ilOut = <<>>
  /\ ilPc = "call"

NextList == ListCall

SpecList == InitList /\ [][NextList]_vars

\* ---------------------------------------------------------- shardLoader.List
\* Repository names are sequences of character codes here, so that they
\* can be compared as sort.Strings compares them.
RECURSIVE StrLess(_, _)
StrLess(a, b) ==
  IF b = <<>> THEN FALSE
  ELSE IF a = <<>> THEN TRUE
  ELSE IF a[1] # b[1] THEN a[1] < b[1]
  ELSE StrLess(Tail(a), Tail(b))

\* sort.Strings(names).
sortStrings(names) ==
  CHOOSE sorted \in {[k \in 1..Len(names) |-> names[f[k]]] :
                       f \in Permutations(1..Len(names))} :
    \A k \in 1..Len(names) - 1 : ~StrLess(sorted[k + 1], sorted[k])

\* A RepoListEntry: the repository and its Stats.
RepoListEntry(name, stats) == [Name |-> name, Stats |-> stats]

\* The loop over r.rl.Repos with the else branch left out.
RECURSIVE mergeReposKeepFirst(_, _, _)
mergeReposKeepFirst(uniq, names, repos) ==
  IF repos = <<>> THEN [uniq |-> uniq, names |-> names]
  ELSE LET r == Head(repos)
       IN IF r.Name \notin DOMAIN uniq
          THEN mergeReposKeepFirst(
                 [n \in DOMAIN uniq \cup {r.Name} |->
                    IF n = r.Name THEN r ELSE uniq[n]],
                 Append(names, r.Name), Tail(repos))
          ELSE mergeReposKeepFirst(uniq, names, Tail(repos))

\* The loop over r.rl.Repos: an entry of a new name is copied into uniq and
\* its name appended to names, an entry of a known name is added to the
\* Stats of the copy.
RECURSIVE mergeRepos(_, _, _)
mergeRepos(uniq, names, repos) ==
  IF repos = <<>> THEN [uniq |-> uniq, names |-> names]
  ELSE LET r == Head(repos)
       IN IF r.Name \notin DOMAIN uniq
          THEN mergeRepos(
                 [n \in DOMAIN uniq \cup {r.Name} |->
                    IF n = r.Name THEN r ELSE uniq[n]],
                 Append(names, r.Name), Tail(repos))
          ELSE mergeRepos(
                 [uniq EXCEPT ![r.Name].Stats = StatsAdd(@, r.Stats)],
                 names, Tail(repos))

\* List takes the read lock, reads the shards and starts one goroutine for
\* each of them.
ListStart ==
  /\ slPc = "call"
  /\ slLocked' = TRUE
  /\ slPc' = "recv"
  /\ UNCHANGED <<slShards, slSent, slAll, slI, slCrashes, slUniq, slNames,
                 slOut>>
  /\ UNCHANGED notSlVars

\* The goroutine of shard k: it sends what the shard's List returns, or a
\* RepoList with one crash when that List panics.
ListShard(k) ==
  /\ slPc # "call"
  /\ k \in DOMAIN slShards
  /\ k \notin slSent
  /\ slSent' = slSent \cup {k}
  /\ slAll' = Append(slAll, IF slShards[k].panics
                            THEN ListResult(FALSE, <<>>, 1, FALSE)
                            ELSE slShards[k].out)
  /\ UNCHANGED <<slShards, slLocked, slI, slCrashes, slUniq, slNames, slOut,
                 slPc>>
  /\ UNCHANGED notSlVars

\* One iteration of the receiving loop; an error ends List at once, and the
\* deferred runlock releases the lock.
ListReceive ==
  /\ slPc = "recv"
  /\ slI < Len(slShards)
  /\ slAll # <<>>
  /\ LET r == Head(slAll)
     IN /\ slAll' = Tail(slAll)
        /\ IF r.err
           THEN /\ slOut' = ListResult(TRUE, <<>>, 0, TRUE)
                /\ slPc' = "err"
                /\ slLocked' = FALSE
                /\ UNCHANGED <<slI, slCrashes, slUniq, slNames>>
           ELSE LET m == mergeRepos(slUniq, slNames, r.Repos)
                IN /\ slCrashes' = slCrashes + r.Crashes
                   /\ slUniq' = m.uniq
                   /\ slNames' = m.names
                   /\ slI' = slI + 1
                   /\ UNCHANGED <<slOut, slPc, slLocked>>
  /\ UNCHANGED <<slShards, slSent>>
  /\ UNCHANGED notSlVars

\* Every shard has answered: the names are sorted and the entries returned
\* in that order.
ListReturn ==
  /\ slPc = "recv"
  /\ slI = Len(slShards)
  /\ slNames' = sortStrings(slNames)
  /\ slOut' = ListResult(FALSE,
                         [k \in 1..Len(slNames) |-> slUniq[slNames'[k]]],
                         slCrashes, FALSE)
  /\ slPc' = "done"
  /\ slLocked' = FALSE
  /\ UNCHANGED <<slShards, slSent, slAll, slI, slCrashes, slUniq>>
  /\ UNCHANGED notSlVars

\* What List of one shard does: it panics, or it returns what indexData.List
\* returns, which is an error, the empty list or the shard's entry.
ShardLists ==
  {[panics |-> TRUE, out |-> ListResult(TRUE, <<>>, 0, FALSE)],
   [panics |-> FALSE, out |-> ListResult(TRUE, <<>>, 0, TRUE)],
   [panics |-> FALSE, out |-> ListResult(FALSE, <<>>, 0, FALSE)]}
    \cup {[panics |-> FALSE,
           out |-> ListResult(FALSE, <<RepoListEntry(n, st)>>, 0, FALSE)] :
            n \in {<<2>>, <<1, 2>>}, st \in 1..2}

InitShardList ==
  /\ NoDirectory
  /\ NoSort
  /\ NoDocSearch
  /\ NoFill
  /\ NoRepoList
  /\ NoBuild
  /\ \E n \in 0..MaxListShards : slShards \in [1..n -> ShardLists]
  /\ slLocked = FALSE
  /\ slSent = {}
  /\ slAll = <<>>
  /\ slI = 0
  /\ slCrashes = 0
  /\ slUniq = <<>>
  /\ slNames = <<>>
  /\ slOut = <<>>
  /\ slPc = "call"

NextShardList ==
  \/ ListStart
  \/ \E k \in 1..MaxListShards : ListShard(k)
  \/ ListReceive
  \/ ListReturn

SpecShardList == InitShardList /\ [][NextShardList]_vars

\* ---------------------------------------------------------- zoekt.IndexBuilder
\* Bytes are numbers; a string is a sequence of bytes.  A uint or uint32
\* that holds bit flags is the set of the positions of its bits that are
\* set, so that 1 << n is {n} as long as the bit exists.
ngramSize == 3

\* bytesToNGram: three bytes packed into 24 bits.
bytesToNGram(bs) == bs[1] * 65536 + bs[2] * 256 + bs[3]

\* The postings loop of newSearchableString, stopping one trigram early.
RECURSIVE addPostingsShort(_, _, _, _)
addPostingsShort(data, startOff, i, postings) ==
  IF i >= Len(data) \/ i + ngramSize >= Len(data) THEN postings
  ELSE LET ngram == bytesToNGram(SubSeq(data, i + 1, i + ngramSize))
       IN addPostingsShort(data, startOff, i + 1,
            [g \in DOMAIN postings \cup {ngram} |->
               IF g # ngram THEN postings[g]
               ELSE Append(IF g \in DOMAIN postings THEN postings[g] ELSE <<>>,
                           startOff + i)])

\* The loop of newSearchableString from index i on: the offset of every
\* trigram of data is appended to the trigram's posting list.
RECURSIVE addPostings(_, _, _, _)
addPostings(data, startOff, i, postings) ==
  IF i >= Len(data) \/ i + ngramSize > Len(data) THEN postings
  ELSE LET ngram == bytesToNGram(SubSeq(data, i + 1, i + ngramSize))
       IN addPostings(data, startOff, i + 1,
            [g \in DOMAIN postings \cup {ngram} |->
               IF g # ngram THEN postings[g]
               ELSE Append(IF g \in DOMAIN postings THEN postings[g] ELSE <<>>,
                           startOff + i)])

\* newSearchableString that counts the offsets from the start of the data.
newSearchableStringRelative(data, startOff, postings) ==
  [str |-> [data |-> data, offset |-> startOff],
   postings |-> addPostings(data, 0, 0, postings)]

\* newSearchableString: the string, and the postings map it has updated.
newSearchableString(data, startOff, postings) ==
  [str |-> [data |-> data, offset |-> startOff],
   postings |-> addPostings(data, startOff, 0, postings)]

\* NewIndexBuilder.
NewIndexBuilder ==
  [contentEnd |-> 0, nameEnd |-> 0, files |-> <<>>, fileNames |-> <<>>,
   docSections |-> <<>>, branchMasks |-> <<>>, contentPostings |-> <<>>,
   namePostings |-> <<>>, branches |-> <<>>]

DocumentSection(start, end) == [Start |-> start, End |-> end]
Document(name, content, branches, symbols) ==
  [Name |-> name, Content |-> content, Branches |-> branches,
   Symbols |-> symbols]

\* uint(1) << uint(n) on a uint of 64 bits, and the conversion to uint32.
uintBit(n) == IF n < 64 THEN {n} ELSE {}
uint32Of(bits) == {k \in bits : k < 32}

\* addBranch: the id of branch br, and the branches map after the call.
addBranch(branches, br) ==
  IF br \in DOMAIN branches
  THEN [id |-> branches[br], branches |-> branches]
  ELSE [id |-> uintBit(Cardinality(DOMAIN branches)),
        branches |-> [n \in DOMAIN branches \cup {br} |->
                        IF n = br THEN uintBit(Cardinality(DOMAIN branches))
                        ELSE branches[n]]]

\* The loop over doc.Branches: the mask and the branches map after it.
RECURSIVE branchMask(_, _, _)
branchMask(branches, brs, mask) ==
  IF brs = <<>> THEN [mask |-> mask, branches |-> branches]
  ELSE LET a == addBranch(branches, Head(brs))
       IN branchMask(a.branches, Tail(brs), mask \cup uint32Of(a.id))

\* The test that makes Add drop a document as "probably not text".
probablyNotText(content) ==
  /\ Len(content) >= ngramSize
  /\ Cardinality({bytesToNGram(SubSeq(content, i - 2, i)) :
                    i \in ngramSize..Len(content) - 1}) > maxTrigramCount

\* sort.Sort(docSectionSlice(symbols)): the sections by Start, sections of
\* equal Start in any order.
sortSections(symbols) ==
  {r \in {[k \in 1..Len(symbols) |-> symbols[f[k]]] :
            f \in Permutations(1..Len(symbols))} :
     \A k \in 1..Len(r) - 1 : r[k].Start <= r[k + 1].Start}

\* The overlap test that takes touching sections for overlapping ones.
sectionsOverlapOrTouch(sorted) ==
  \E k \in 2..Len(sorted) : sorted[k - 1].End >= sorted[k].Start

\* The loop over the sorted sections: "sections overlap".
sectionsOverlap(sorted) ==
  \E k \in 2..Len(sorted) : sorted[k - 1].End > sorted[k].Start

\* What a call returns: the builder after it, the error, and the caller's
\* slice of sections after it.
Returned(b, err, symbols) == [b |-> b, err |-> err, symbols |-> symbols]

\* The part of Add that stores the document.
indexBuilderStore(b, doc, sorted, content, name, bm) ==
  Returned([contentEnd |-> b.contentEnd + Len(doc.Content),
            nameEnd |-> b.nameEnd + Len(doc.Name),
            files |-> Append(b.files, content.str),
            fileNames |-> Append(b.fileNames, name.str),
            docSections |-> Append(b.docSections, sorted),
            branchMasks |-> Append(b.branchMasks, bm.mask),
            contentPostings |-> content.postings,
            namePostings |-> name.postings,
            branches |-> bm.branches],
           FALSE, sorted)

\* Add that appends the content before it tests the sections.
indexBuilderAddEager(b, doc, sorted) ==
  IF probablyNotText(doc.Content) THEN Returned(b, FALSE, doc.Symbols)
  ELSE IF sectionsOverlap(sorted)
  THEN Returned([b EXCEPT !.files = Append(@, [data |-> doc.Content,
                                                offset |-> b.contentEnd]),
                          !.contentEnd = @ + Len(doc.Content)],
                TRUE, sorted)
  ELSE indexBuilderStore(
         b, doc, sorted,
         newSearchableString(doc.Content, b.contentEnd, b.contentPostings),
         newSearchableString(doc.Name, b.nameEnd, b.namePostings),
         branchMask(b.branches, doc.Branches, {}))

\* IndexBuilder.Add, sorted being what sort.Sort makes of doc.Symbols.
indexBuilderAdd(b, doc, sorted) ==
  IF probablyNotText(doc.Content) THEN Returned(b, FALSE, doc.Symbols)
  ELSE IF sectionsOverlap(sorted) THEN Returned(b, TRUE, sorted)
  ELSE indexBuilderStore(
         b, doc, sorted,
         newSearchableString(doc.Content, b.contentEnd, b.contentPostings),
         newSearchableString(doc.Name, b.nameEnd, b.namePostings),
         branchMask(b.branches, doc.Branches, {}))

\* The record of a call: its arguments, the error and the sections it
\* returned, and the builder it was made on.
Called(call, doc, r) ==
  [call |-> call, doc |-> doc, err |-> r.err, symbols |-> r.symbols,
   before |-> ib]

\* IndexBuilder.Add(doc).
IbAdd(doc) ==
  /\ ibLeft > 0
  /\ ibLeft' = ibLeft - 1
  /\ \E sorted \in sortSections(doc.Symbols) :
       \E r \in {indexBuilderAdd(ib, doc, sorted)} :
         ib' = r.b /\ ibLast' = Called("Add", doc, r)
  /\ UNCHANGED <<wrVars, bbVars>>
  /\ UNCHANGED notBuildVars

\* IndexBuilder.AddFile(name, content); the error of Add is dropped.
IbAddFile(name, content) ==
  /\ ibLeft > 0
  /\ ibLeft' = ibLeft - 1
  /\ \E r \in {indexBuilderAdd(ib, Document(name, content, <<>>, <<>>), <<>>)} :
       /\ ib' = r.b
       /\ ibLast' = Called("AddFile", Document(name, content, <<>>, <<>>),
                           [r EXCEPT !.err = FALSE])
  /\ UNCHANGED <<wrVars, bbVars>>
  /\ UNCHANGED notBuildVars

\* IndexBuilder.AddBranch(branch).
IbAddBranch(br) ==
  /\ ibLeft > 0
  /\ ibLeft' = ibLeft - 1
  /\ ib' = [ib EXCEPT !.branches = addBranch(ib.branches, br).branches]
  /\ ibLast' = Called("AddBranch", Document(<<>>, <<>>, <<br>>, <<>>),
                      Returned(ib, FALSE, <<>>))
  /\ UNCHANGED <<wrVars, bbVars>>
  /\ UNCHANGED notBuildVars

\* The documents given to a builder: contents of up to MaxContent bytes of
\* two letters, two contents with maxTrigramCount + 1 and maxTrigramCount + 2
\* distinct trigrams, the second with overlapping sections too, a short and
\* a long name, symbol sections in any order, and branch lists with
\* repeated and with no branches.
ManyTrigrams(n) == SubSeq(<<97, 97, 97, 98, 97, 98, 98, 98, 97, 97>>, 1, n + 2)
RECURSIVE Strings(_, _)
Strings(letters, n) ==
  IF n = 0 THEN {<<>>}
  ELSE Strings(letters, n - 1)
       \cup {Append(w, c) : w \in Strings(letters, n - 1), c \in letters}

Contents(n) == {w \in Strings({97, 98}, n) : w = <<>> \/ w[1] = 97}
Sections ==
  {DocumentSection(a, b) : a \in 0..MaxSection, b \in 0..MaxSection}
SectionLists ==
  {<<>>} \cup {<<x, y>> : x \in Sections, y \in Sections}
IbDocs ==
  {Document(<<98>>, c, <<1>>, <<>>) : c \in Contents(MaxContent)}
    \cup {Document(<<97, 98, 97, 97>>, <<>>, <<2>>, <<>>)}
    \cup {Document(<<98>>, ManyTrigrams(maxTrigramCount + 1), <<1>>, <<>>),
          Document(<<98>>, ManyTrigrams(maxTrigramCount + 2), <<1>>,
                   <<DocumentSection(0, 1), DocumentSection(0, 1)>>)}
    \cup {Document(<<98>>, <<97>>, <<1>>, sl) : sl \in SectionLists}
    \cup {Document(<<98>>, <<97>>, brs, <<>>) :
            brs \in {<<>>, <<2, 1>>, <<1, 1>>}}

InitBuilder ==
  /\ NoDirectory
  /\ NoSort
  /\ NoDocSearch
  /\ NoFill
  /\ NoList
  /\ NoWrite
  /\ NoBuilder
  /\ NoTools
  /\ ib = NewIndexBuilder
  /\ ibLast = <<>>
  /\ ibLeft = MaxAdds

NextBuilder ==
  \/ \E doc \in IbDocs : IbAdd(doc)
  \/ \E c \in {<<>>, <<97, 98, 97>>} : IbAddFile(<<98>>, c)
  \/ \E br \in 1..2 : IbAddBranch(br)

SpecBuilder == InitBuilder /\ [][NextBuilder]_vars

\* A builder that is given branch names only: a name is a number, the names
\* being numbered as they are first seen.  Each call names the first branch,
\* the last one seen or a new one; one document is added.
BranchNames ==
  {br \in {1, Cardinality(DOMAIN ib.branches),
           Cardinality(DOMAIN ib.branches) + 1} : br \in 1..MaxBranches}

InitBranches ==
  /\ NoDirectory
  /\ NoSort
  /\ NoDocSearch
  /\ NoFill
  /\ NoList
  /\ NoWrite
  /\ NoBuilder
  /\ NoTools
  /\ ib = NewIndexBuilder
  /\ ibLast = <<>>
  /\ ibLeft = MaxBranches + 1

NextBranches ==
  \/ \E br \in BranchNames : IbAddBranch(br)
  \/ \E br \in BranchNames :
       ib.files = <<>> /\ IbAdd(Document(<<>>, <<>>, <<br>>, <<>>))

SpecBranches == InitBranches /\ [][NextBranches]_vars

\* ----------------------------------------------------- IndexBuilder.Write
\* indexTOC.sections: the order in which the TOC lists the sections.
sections ==
  <<"unaryData", "fileContents", "fileNames", "fileSections", "newlines",
    "ngramText", "postings", "nameNgramText", "namePostings", "branchMasks",
    "subRepos">>

sectionNames == {sections[i] : i \in DOMAIN sections}

\* Write: the order in which it starts and ends the sections.
writeOrderOfTOC == sections

writeOrder ==
  <<"fileContents", "newlines", "branchMasks", "fileSections", "ngramText",
    "postings", "fileNames", "nameNgramText", "namePostings", "subRepos",
    "unaryData">>

\* What Write does after the section sec.
afterSection(sec) ==
  IF sec = writeOrder[Len(writeOrder)] THEN "toc"
  ELSE writeOrder[(CHOOSE i \in DOMAIN writeOrder : writeOrder[i] = sec) + 1]

RECURSIVE sumTo(_, _)
sumTo(ns, n) == IF n = 0 THEN 0 ELSE ns[n] + sumTo(ns, n - 1)

\* toDeltas: each offset as its difference to the one before, and the
\* number of bytes of its varints.
toDeltas(offsets) ==
  [i \in 1..Len(offsets) |->
     offsets[i] - (IF i = 1 THEN 0 ELSE offsets[i - 1])]
uvarintSize(n) == IF n < 128 THEN 1 ELSE 2
deltasSize(offsets) ==
  sumTo([i \in 1..Len(offsets) |-> uvarintSize(toDeltas(offsets)[i])],
        Len(offsets))

\* newLinesIndices: the offsets of the newline bytes of the data from i on.
RECURSIVE newLinesIndices(_, _)
newLinesIndices(data, i) ==
  IF i > Len(data) THEN <<>>
  ELSE (IF data[i] = 10 THEN <<i - 1>> ELSE <<>>)
         \o newLinesIndices(data, i + 1)

\* marshalDocSections: the starts and ends of the sections, as deltas.
RECURSIVE flattenSections(_)
flattenSections(secs) ==
  IF secs = <<>> THEN <<>>
  ELSE <<Head(secs).Start, Head(secs).End>> \o flattenSections(Tail(secs))

\* A compound section of items of the given sizes: the items, and one
\* offset of four bytes for each boundary of an item.
compoundSize(sizes) == sumTo(sizes, Len(sizes)) + 4 * (Len(sizes) + 1)

RECURSIVE postingsSizes(_, _)
postingsSizes(postings, keys) ==
  IF keys = {} THEN <<>>
  ELSE <<deltasSize(postings[CHOOSE k \in keys : \A l \in keys : k <= l])>>
         \o postingsSizes(postings,
              keys \ {CHOOSE k \in keys : \A l \in keys : k <= l})

\* The number of bytes Write puts between start and end of the section sec;
\* blobLen is the length of the JSON of the unaryData.
sectionSize(b, sec, blobLen) ==
  CASE sec = "fileContents" ->
         compoundSize([i \in 1..Len(b.files) |-> Len(b.files[i].data)])
    [] sec = "newlines" ->
         compoundSize([i \in 1..Len(b.files) |->
                         deltasSize(newLinesIndices(b.files[i].data, 1))])
    [] sec = "branchMasks" -> 4 * Len(b.branchMasks)
    [] sec = "fileSections" ->
         compoundSize([i \in 1..Len(b.docSections) |->
                         deltasSize(flattenSections(b.docSections[i]))])
    [] sec = "ngramText" -> ngramSize * Cardinality(DOMAIN b.contentPostings)
    [] sec = "postings" ->
         compoundSize(postingsSizes(b.contentPostings,
                                    DOMAIN b.contentPostings))
    [] sec = "fileNames" ->
         compoundSize([i \in 1..Len(b.fileNames) |->
                         Len(b.fileNames[i].data)])
    [] sec = "nameNgramText" -> ngramSize * Cardinality(DOMAIN b.namePostings)
    [] sec = "namePostings" ->
         compoundSize(postingsSizes(b.namePostings, DOMAIN b.namePostings))
    [] sec = "subRepos" -> Len(b.files)
    [] sec = "unaryData" -> blobLen

\* The bytes of one start .. end, or of one write of a section's offset and
\* size: what they are, where they are, and the offsets and sizes they hold.
Chunk(sec, off, sz, entries) ==
  [sec |-> sec, off |-> off, sz |-> sz, entries |-> entries]

\* writeTOC: the number of sections, then the offset and the size of each
\* section in the order of sections().
writeTOC(toc) ==
  [i \in DOMAIN sections |->
     [sec |-> sections[i], off |-> toc[sections[i]].off,
      sz |-> toc[sections[i]].sz]]
writeTOCSize == 4 + 8 * Len(sections)

\* Write starts: the writer and the TOC are empty.
WriteStart(fails, blobLen) ==
  /\ wrPc = "off"
  /\ wrW' = [off |-> 0, out |-> <<>>, blob |-> blobLen,
             tocSection |-> [off |-> 0, sz |-> 0]]
  /\ wrToc' = [sec \in sectionNames |-> [off |-> 0, sz |-> 0]]
  /\ wrFails' = fails
  /\ wrPc' = writeOrder[1]
  /\ UNCHANGED <<ibVars, bbVars>>
  /\ UNCHANGED notBuildVars

\* One section of the builder's data: start, the items, end.
WriteSection ==
  /\ wrPc \in sectionNames \ {"unaryData"}
  /\ wrW' = [wrW EXCEPT
               !.off = @ + sectionSize(ib, wrPc, wrW.blob),
               !.out = Append(@, Chunk(wrPc, wrW.off,
                                       sectionSize(ib, wrPc, wrW.blob),
                                       <<>>))]
  /\ wrToc' = [wrToc EXCEPT
                 ![wrPc] = [off |-> wrW.off,
                            sz |-> sectionSize(ib, wrPc, wrW.blob)]]
  /\ wrPc' = afterSection(wrPc)
  /\ UNCHANGED <<wrFails, ibVars, bbVars>>
  /\ UNCHANGED notBuildVars

\* json.Marshal of the unaryData, and the section of its JSON.
WriteUnaryData ==
  /\ wrPc = "unaryData"
  /\ IF wrFails
     THEN /\ wrPc' = "err"
          /\ UNCHANGED <<wrW, wrToc>>
     ELSE /\ wrW' = [wrW EXCEPT
                       !.off = @ + wrW.blob,
                       !.out = Append(@, Chunk("unaryData", wrW.off,
                                               wrW.blob, <<>>))]
          /\ wrToc' = [wrToc EXCEPT
                         !["unaryData"] = [off |-> wrW.off,
                                           sz |-> wrW.blob]]
          /\ wrPc' = afterSection("unaryData")
  /\ UNCHANGED <<wrFails, ibVars, bbVars>>
  /\ UNCHANGED notBuildVars

\* tocSection.start, writeTOC, tocSection.end.
WriteTOC ==
  /\ wrPc = "toc"
  /\ wrW' = [wrW EXCEPT
               !.off = @ + writeTOCSize,
               !.out = Append(@, Chunk("toc", wrW.off, writeTOCSize,
                                       writeTOC(wrToc))),
               !.tocSection = [off |-> wrW.off, sz |-> writeTOCSize]]
  /\ wrPc' = "locator"
  /\ UNCHANGED <<wrToc, wrFails, ibVars, bbVars>>
  /\ UNCHANGED notBuildVars

\* tocSection.write: the offset and the size of the TOC.
WriteLocator ==
  /\ wrPc = "locator"
  /\ wrW' = [wrW EXCEPT
               !.off = @ + 8,
               !.out = Append(@, Chunk("locator", wrW.off, 8,
                                       <<[sec |-> "toc",
                                          off |-> wrW.tocSection.off,
                                          sz |-> wrW.tocSection.sz]>>))]
  /\ wrPc' = "done"
  /\ UNCHANGED <<wrToc, wrFails, ibVars, bbVars>>
  /\ UNCHANGED notBuildVars

\* The documents of the builders that are written.
WriteDocs ==
  {Document(<<98>>, <<97, 98, 97>>, <<1>>, <<DocumentSection(0, 1)>>),
   Document(<<97, 98, 97, 97>>, <<>>, <<2>>, <<>>),
   Document(<<98>>, <<97, 10>>, <<>>, <<>>)}

InitWrite ==
  /\ NoDirectory
  /\ NoSort
  /\ NoDocSearch
  /\ NoFill
  /\ NoList
  /\ NoWrite
  /\ NoBuilder
  /\ NoTools
  /\ ib = NewIndexBuilder
  /\ ibLast = <<>>
  /\ ibLeft = MaxAdds

NextWrite ==
  \/ \E doc \in WriteDocs : wrPc = "off" /\ IbAdd(doc)
  \/ \E fails \in BOOLEAN, blobLen \in 1..MaxBlob :
       WriteStart(fails, blobLen)
  \/ WriteSection
  \/ WriteUnaryData
  \/ WriteTOC
  \/ WriteLocator

SpecWrite == InitWrite /\ [][NextWrite]_vars

\* ------------------------------------------------------------ build.Builder
\* zoekt.IsText: content without a NUL byte.
IsText(content) == \A i \in DOMAIN content : content[i] # 0

\* NewBuilder: no pending document, shard 0 next, no build error.
NewBuilder(options) ==
  [opts |-> options, todo |-> <<>>, size |-> 0, nextShardNum |-> 0,
   buildError |-> "nil"]

\* flush: the builder after it, the call of buildShard it makes (if any) and
\* the error it returns; err is what buildShard returns when it is run by
\* flush itself.
flush(b, err) ==
  IF b.buildError # "nil"
  THEN [b |-> [b EXCEPT !.todo = <<>>, !.size = 0], shards |-> <<>>,
        err |-> b.buildError]
  ELSE IF b.todo = <<>>
  THEN [b |-> [b EXCEPT !.todo = <<>>, !.size = 0], shards |-> <<>>,
        err |-> "nil"]
  ELSE IF b.opts.Parallelism > 1
  THEN [b |-> [b EXCEPT !.todo = <<>>, !.size = 0,
                        !.nextShardNum = @ + 1],
        shards |-> <<[docs |-> b.todo, shard |-> b.nextShardNum]>>,
        err |-> "nil"]
  ELSE [b |-> [b EXCEPT !.todo = <<>>, !.size = 0,
                        !.nextShardNum = @ + 1, !.buildError = err],
        shards |-> <<[docs |-> b.todo, shard |-> b.nextShardNum]>>,
        err |-> err]

\* Builder.Add: the same three results.
builderAddAtLimit(b, doc, err) ==
  IF Len(doc.Content) >= b.opts.SizeMax \/ ~IsText(doc.Content)
  THEN [b |-> b, shards |-> <<>>, err |-> "nil"]
  ELSE IF b.size + Len(doc.Name) + Len(doc.Content) > b.opts.ShardMax
  THEN flush([b EXCEPT !.todo = Append(@, doc),
                       !.size = @ + Len(doc.Name) + Len(doc.Content)], err)
  ELSE [b |-> [b EXCEPT !.todo = Append(@, doc),
                        !.size = @ + Len(doc.Name) + Len(doc.Content)],
        shards |-> <<>>, err |-> "nil"]

builderAdd(b, doc, err) ==
  IF Len(doc.Content) > b.opts.SizeMax \/ ~IsText(doc.Content)
  THEN [b |-> b, shards |-> <<>>, err |-> "nil"]
  ELSE IF b.size + Len(doc.Name) + Len(doc.Content) > b.opts.ShardMax
  THEN flush([b EXCEPT !.todo = Append(@, doc),
                       !.size = @ + Len(doc.Name) + Len(doc.Content)], err)
  ELSE [b |-> [b EXCEPT !.todo = Append(@, doc),
                        !.size = @ + Len(doc.Name) + Len(doc.Content)],
        shards |-> <<>>, err |-> "nil"]

\* The shard numbers whose goroutine a flush starts.
Started(b, calls) ==
  IF b.opts.Parallelism > 1 THEN {calls[i].shard : i \in DOMAIN calls}
  ELSE {}

\* What is kept of a call: the call, its document, the error it returned,
\* the builder and the shards before it, and the documents given so far.
BuilderCalled(call, doc, err) ==
  [call |-> call, doc |-> doc, err |-> err, before |-> bb,
   built |-> bbBuilt,
   docs |-> (IF bbLast = <<>> THEN <<>> ELSE bbLast.docs)
              \o (IF call = "Add" THEN <<doc>> ELSE <<>>)]

\* A shard file of the repository: its number, and whether this run of
\* the Builder wrote it ("new") or an earlier one ("old").
ShardOf(num, run) == [num |-> num, run |-> run]

\* The numbers of the shard files in the directory.
Nums(dir) == {f.num : f \in dir}

\* buildShard has returned err for the shard of calls, if there is one:
\* writeShard has renamed the new file over the final name, or has left
\* the directory as it was.
afterBuildShard(dir, calls, err) ==
  IF calls = <<>> \/ err # "nil" THEN dir
  ELSE {f \in dir : f.num # calls[1].shard}
         \cup {ShardOf(calls[1].shard, "new")}

\* The shards of calls that flush built itself, without a goroutine.
Inline(b, calls) == IF b.opts.Parallelism > 1 THEN <<>> ELSE calls

\* The numbers of the shards of calls whose buildShard returned err.
Failures(calls, err) ==
  IF err = "nil" THEN {} ELSE {calls[i].shard : i \in DOMAIN calls}

\* deleteRemainingShards: remove the files numbered shard, shard + 1, ...
\* up to the first number that has no file.
RECURSIVE deleteRemainingShards(_, _)
deleteRemainingShards(dir, shard) ==
  IF shard \notin Nums(dir) THEN [dir |-> dir, nextShardNum |-> shard + 1]
  ELSE deleteRemainingShards({f \in dir : f.num # shard}, shard + 1)

\* Builder.Add.
BuilderAdd(doc, err) ==
  /\ bbLeft > 0
  /\ bbFin = "off"
  /\ bbLeft' = bbLeft - 1
  /\ bbDir' = afterBuildShard(bbDir, Inline(bb, builderAdd(bb, doc, err).shards),
                              err)
  /\ bbFailed' = bbFailed
                   \cup Failures(Inline(bb, builderAdd(bb, doc, err).shards),
                                 err)
  /\ bb' = builderAdd(bb, doc, err).b
  /\ bbBuilt' = bbBuilt \o builderAdd(bb, doc, err).shards
  /\ bbRunning' = bbRunning \cup Started(bb, builderAdd(bb, doc, err).shards)
  /\ bbLast' = BuilderCalled("Add", doc, builderAdd(bb, doc, err).err)
  /\ UNCHANGED <<bbFin, ibVars, wrVars>>
  /\ UNCHANGED notBuildVars

\* The goroutine of a flush ends: buildShard has returned err.
BuildShardEnd(shard, err) ==
  /\ shard \in bbRunning
  /\ bbRunning' = bbRunning \ {shard}
  /\ bb' = IF err # "nil" /\ bb.buildError = "nil"
           THEN [bb EXCEPT !.buildError = err] ELSE bb
  /\ bbDir' = afterBuildShard(bbDir, <<[shard |-> shard]>>, err)
  /\ bbFailed' = bbFailed \cup Failures(<<[shard |-> shard]>>, err)
  /\ UNCHANGED <<bbBuilt, bbLast, bbLeft, bbFin, ibVars, wrVars>>
  /\ UNCHANGED notBuildVars

\* Builder.Finish, up to building.Wait: the last flush; no Add follows.
BuilderFinish(err) ==
  /\ bbFin = "off"
  /\ bbFin' = "wait"
  /\ bbLeft' = 0
  /\ bbDir' = afterBuildShard(bbDir, Inline(bb, flush(bb, err).shards), err)
  /\ bbFailed' = bbFailed \cup Failures(Inline(bb, flush(bb, err).shards), err)
  /\ bb' = flush(bb, err).b
  /\ bbBuilt' = bbBuilt \o flush(bb, err).shards
  /\ bbRunning' = bbRunning \cup Started(bb, flush(bb, err).shards)
  /\ bbLast' = BuilderCalled("Finish", <<>>, flush(bb, err).err)
  /\ UNCHANGED <<ibVars, wrVars>>
  /\ UNCHANGED notBuildVars

\* A Finish that does not wait for the goroutines.
finishReadyAtOnce(running) == TRUE

\* building.Wait returns once no goroutine of a flush is running.
finishReady(running) == running = {}

\* Builder.Finish, from building.Wait on: every goroutine has ended; the
\* shards left over are deleted if a shard number was used, and the build
\* error is returned.
BuilderFinishReturn ==
  /\ bbFin = "wait"
  /\ finishReady(bbRunning)
  /\ bbFin' = bb.buildError
  /\ IF bb.nextShardNum > 0
     THEN /\ bbDir' = deleteRemainingShards(bbDir, bb.nextShardNum).dir
          /\ bb' = [bb EXCEPT !.nextShardNum =
                      deleteRemainingShards(bbDir, bb.nextShardNum).nextShardNum]
     ELSE UNCHANGED <<bbDir, bb>>
  /\ UNCHANGED <<bbBuilt, bbRunning, bbLast, bbLeft, bbFailed, ibVars, wrVars>>
  /\ UNCHANGED notBuildVars

\* The documents given to a Builder, and its options.
BuilderDocs ==
  {Document(<<98>>, [i \in 1..n |-> 97], <<>>, <<>>) : n \in 0..MaxDocSize}
    \cup {Document(<<98, 99>>, <<97>>, <<>>, <<>>),
          Document(<<98>>, <<0>>, <<>>, <<>>)}
BuilderOptions ==
  [SizeMax : {1, MaxDocSize}, ShardMax : {2, 4}, Parallelism : {1, 2}]
BuildErrors == {"nil", "error"}

\* The shard files an earlier run may have left: none, those of all the
\* numbers below MaxLeftover, or these without the last but one (a run
\* whose shard n failed and whose shard n + 1 did not leaves such a gap).
Leftovers ==
  {{ShardOf(n, "old") : n \in ns} :
     ns \in {{}, 0..MaxLeftover - 1,
             (0..MaxLeftover - 1) \ {MaxLeftover - 2}}}

InitBuild ==
  /\ NoDirectory
  /\ NoSort
  /\ NoDocSearch
  /\ NoFill
  /\ NoList
  /\ NoIndexBuilder
  /\ NoWrite
  /\ bb \in {NewBuilder(options) : options \in BuilderOptions}
  /\ bbBuilt = <<>>
  /\ bbRunning = {}
  /\ bbLast = <<>>
  /\ bbLeft = MaxBuilderAdds
  /\ bbDir \in Leftovers
  /\ bbFin = "off"
  /\ bbFailed = {}
  /\ NoTools

NextBuild ==
  \/ \E doc \in BuilderDocs, err \in BuildErrors : BuilderAdd(doc, err)
  \/ \E shard \in bbRunning, err \in BuildErrors : BuildShardEnd(shard, err)
  \/ \E err \in BuildErrors : BuilderFinish(err)
  \/ BuilderFinishReturn

SpecBuild == InitBuild /\ [][NextBuild]_vars

\* ----------------------------------------------------------- writeShard
\* A file name is a sequence of parts, each a string; shardName prints the
\* shard number and ends the name with ".zoekt".
Sprintf05d(n) ==
  <<"00000", "00001", "00002", "00003", "00004", "00005", "00006", "00007",
    "00008", "00009">>[n + 1]
shardName(repo, shardNum) == <<repo, Sprintf05d(shardNum), ".zoekt">>

\* filepath.Glob of "*.zoekt", as ShardWatcher.scan calls it.
GlobZoekt(name) == name # <<>> /\ name[Len(name)] = ".zoekt"

\* ioutil.TempFile(dir, base): a new file named base followed by a number.
tempFileNameBefore(base, rand) == <<rand>> \o base

tempFileName(base, rand) == base \o <<rand>>

\* A file of the directory: how many chunks it holds of how many, whether a
\* descriptor is open on it, and the run ("old", "new") that wrote it.
ShardFile(name, chunks, of, open, run) ==
  [name |-> name, chunks |-> chunks, of |-> of, open |-> open, run |-> run]

\* The directory with file f put under its name.
PutFile(dir, f) == {g \in dir : g.name # f.name} \cup {f}

\* The file of the directory under a name.
FileAt(dir, name) == CHOOSE f \in dir : f.name = name

\* writeShard returns (the deferred f.Close closes the file if it is open).
WsReturn(err) ==
  [wsh EXCEPT
     !.pc = "done", !.err = err,
     !.dir = IF wsh.tmp = <<>> \/ \A f \in wsh.dir : f.name # wsh.tmp
             THEN wsh.dir
             ELSE PutFile(wsh.dir,
                          [FileAt(wsh.dir, wsh.tmp) EXCEPT !.open = FALSE])]

\* os.MkdirAll.
WsMkdir(fails) ==
  /\ wsh # <<>>
  /\ wsh.pc = "mkdir"
  /\ wsh' = IF fails THEN WsReturn("error") ELSE [wsh EXCEPT !.pc = "temp"]
  /\ UNCHANGED <<rq, lr, gl>>
  /\ UNCHANGED notToolVars

\* ioutil.TempFile.
WsTempFile(fails, rand) ==
  /\ wsh # <<>>
  /\ wsh.pc = "temp"
  /\ wsh' = IF fails THEN WsReturn("error")
            ELSE [wsh EXCEPT
                    !.pc = "write",
                    !.tmp = tempFileName(wsh.fn, rand),
                    !.dir = PutFile(@, ShardFile(tempFileName(wsh.fn, rand),
                                                 0, wsh.size, TRUE, "new"))]
  /\ UNCHANGED <<rq, lr, gl>>
  /\ UNCHANGED notToolVars

\* The bufio.Writer writes its buffer to the file: the file and the error of
\* the bufio.Writer after it.
bufioFlush(w, fails) ==
  IF w.bufErr # "nil" \/ w.buffered = 0 THEN w
  ELSE IF fails THEN [w EXCEPT !.bufErr = "error"]
  ELSE [w EXCEPT
          !.buffered = 0,
          !.dir = PutFile(@, [FileAt(w.dir, w.tmp) EXCEPT
                                !.chunks = @ + w.buffered])]

\* IndexBuilder.Write writes one chunk through the bufio.Writer, which
\* writes to the file when its buffer is full; the writer keeps the error.
WsWrite(fails) ==
  /\ wsh # <<>>
  /\ wsh.pc = "write"
  /\ wsh.written < wsh.size
  /\ wsh' = IF wsh.bufErr # "nil"
            THEN [wsh EXCEPT !.written = @ + 1]
            ELSE IF wsh.buffered < MaxBuffered
            THEN [wsh EXCEPT !.written = @ + 1, !.buffered = @ + 1]
            ELSE IF bufioFlush(wsh, fails).bufErr # "nil"
            THEN [bufioFlush(wsh, fails) EXCEPT
                    !.written = @ + 1, !.werr = "error"]
            ELSE [bufioFlush(wsh, fails) EXCEPT
                    !.written = @ + 1, !.buffered = 1]
  /\ UNCHANGED <<rq, lr, gl>>
  /\ UNCHANGED notToolVars

\* IndexBuilder.Write returns w.err; the deferred buffered.Flush runs and
\* its error is dropped.
WsWriteReturn(fails) ==
  /\ wsh # <<>>
  /\ wsh.pc = "write"
  /\ wsh.written = wsh.size
  /\ wsh' = IF wsh.werr # "nil"
            THEN [WsReturn(wsh.werr) EXCEPT
                    !.bufErr = bufioFlush(wsh, fails).bufErr]
            ELSE [bufioFlush(wsh, fails) EXCEPT !.pc = "stat"]
  /\ UNCHANGED <<rq, lr, gl>>
  /\ UNCHANGED notToolVars

\* f.Stat.
WsStat(fails) ==
  /\ wsh # <<>>
  /\ wsh.pc = "stat"
  /\ wsh' = IF fails THEN WsReturn("error") ELSE [wsh EXCEPT !.pc = "close"]
  /\ UNCHANGED <<rq, lr, gl>>
  /\ UNCHANGED notToolVars

\* f.Close: the descriptor is closed also when Close reports an error.
WsClose(fails) ==
  /\ wsh # <<>>
  /\ wsh.pc = "close"
  /\ wsh' = IF fails THEN WsReturn("error")
            ELSE [wsh EXCEPT
                    !.pc = "rename",
                    !.dir = PutFile(@, [FileAt(wsh.dir, wsh.tmp) EXCEPT
                                          !.open = FALSE])]
  /\ UNCHANGED <<rq, lr, gl>>
  /\ UNCHANGED notToolVars

\* os.Rename: the temporary file takes the final name in one step.
WsRename(fails) ==
  /\ wsh # <<>>
  /\ wsh.pc = "rename"
  /\ wsh' = IF fails THEN WsReturn("error")
            ELSE [wsh EXCEPT
                    !.pc = "done",
                    !.dir = {g \in @ : g.name \notin {wsh.fn, wsh.tmp}}
                              \cup {[FileAt(wsh.dir, wsh.tmp) EXCEPT
                                       !.name = wsh.fn]}]
  /\ UNCHANGED <<rq, lr, gl>>
  /\ UNCHANGED notToolVars

\* A call of writeShard for shard 0 of a repository, of 1..MaxChunks chunks,
\* into a directory that is empty or holds the complete shard of an
\* earlier run.
InitShardFile ==
  /\ NoDirectory
  /\ NoSort
  /\ NoDocSearch
  /\ NoFill
  /\ NoList
  /\ NoIndexBuilder
  /\ NoWrite
  /\ NoBuilder
  /\ rq = <<>>
  /\ lr = <<>>
  /\ gl = <<>>
  /\ wsh \in {[pc |-> "mkdir", fn |-> shardName("repo", 0), tmp |-> <<>>,
               size |-> n, written |-> 0, buffered |-> 0, bufErr |-> "nil",
               werr |-> "nil", err |-> "nil", dir |-> d] :
                n \in 1..MaxChunks,
                d \in {{}, {ShardFile(shardName("repo", 0), 1, 1, FALSE,
                                      "old")}}}

NextShardFile ==
  \/ \E fails \in BOOLEAN : WsMkdir(fails)
  \/ \E fails \in BOOLEAN, rand \in {"1", "2"} : WsTempFile(fails, rand)
  \/ \E fails \in BOOLEAN : WsWrite(fails)
  \/ \E fails \in BOOLEAN : WsWriteReturn(fails)
  \/ \E fails \in BOOLEAN : WsStat(fails)
  \/ \E fails \in BOOLEAN : WsClose(fails)
  \/ \E fails \in BOOLEAN : WsRename(fails)

SpecShardFile == InitShardFile /\ [][NextShardFile]_vars

\* ---------------------------------------------------------- RegexpToQuery
\* syntax.Regexp: the operator, the flags, the runes of a literal, the
\* sub-expressions and the lower bound of a repeat.
Regexp(op, rune, sub, min) ==
  [Op |-> op, Flags |-> {}, Rune |-> rune, Sub |-> sub, Min |-> min]
OpLiteral(rune) == Regexp("OpLiteral", rune, <<>>, 0)
\* The literal the parser makes of (?i)abc or [Aa][Bb][Cc]: the flag
\* FoldCase, and of every rune the smallest one that folds to it.
OpLiteralFold(rune) == [OpLiteral(rune) EXCEPT !.Flags = {"FoldCase"}]
OpEmptyMatch == Regexp("OpEmptyMatch", <<>>, <<>>, 0)
OpAnyChar == Regexp("OpAnyChar", <<>>, <<>>, 0)
OpUnary(op, r) == Regexp(op, <<>>, <<r>>, 0)
OpRepeat(r, min) == Regexp("OpRepeat", <<>>, <<r>>, min)
OpConcat(sub) == Regexp("OpConcat", <<>>, sub, 0)
OpAlternate(sub) == Regexp("OpAlternate", <<>>, sub, 0)

\* The runes that are equal to the rune under simple case folding: an
\* upper-case letter and its lower-case one, and for S also U+017F.
foldOrbit(rune) ==
  CASE rune = "A" -> {"A", "a"}
    [] rune = "B" -> {"B", "b"}
    [] rune = "S" -> {"S", "s", "U+017F"}
    [] OTHER -> {rune}

\* The regexp r matches the whole of the string str (OpRepeat without an
\* upper bound).
RECURSIVE ReMatches(_, _)
RECURSIVE ReMatchesSeq(_, _)
RECURSIVE ReMatchesTimes(_, _, _)
ReMatches(r, str) ==
  CASE r.Op = "OpLiteral" ->
         IF "FoldCase" \in r.Flags
         THEN /\ Len(str) = Len(r.Rune)
              /\ \A k \in 1..Len(str) : str[k] \in foldOrbit(r.Rune[k])
         ELSE str = r.Rune
    [] r.Op = "OpEmptyMatch" -> str = <<>>
    [] r.Op = "OpAnyChar" -> Len(str) = 1
    [] r.Op = "OpCapture" -> ReMatches(r.Sub[1], str)
    [] r.Op = "OpStar" -> ReMatchesTimes(r.Sub[1], 0, str)
    [] r.Op = "OpPlus" -> ReMatchesTimes(r.Sub[1], 1, str)
    [] r.Op = "OpQuest" -> str = <<>> \/ ReMatches(r.Sub[1], str)
    [] r.Op = "OpRepeat" -> ReMatchesTimes(r.Sub[1], r.Min, str)
    [] r.Op = "OpConcat" -> ReMatchesSeq(r.Sub, str)
    [] r.Op = "OpAlternate" ->
         \E k \in 1..Len(r.Sub) : ReMatches(r.Sub[k], str)
ReMatchesSeq(sub, str) ==
  IF sub = <<>> THEN str = <<>>
  ELSE \E k \in 0..Len(str) :
         /\ ReMatches(Head(sub), SubSeq(str, 1, k))
         /\ ReMatchesSeq(Tail(sub), SubSeq(str, k + 1, Len(str)))
\* str is min or more matches of r, one after the other.
ReMatchesTimes(r, min, str) ==
  \/ min = 0 /\ str = <<>>
  \/ \E k \in 1..Len(str) :
       /\ ReMatches(r, SubSeq(str, 1, k))
       /\ ReMatchesTimes(r, IF min = 0 THEN 0 ELSE min - 1,
                         SubSeq(str, k + 1, Len(str)))
  \/ min > 0 /\ ReMatches(r, <<>>)
       /\ ReMatchesTimes(r, min - 1, str)

\* The regexp matches somewhere in the text.
ReFinds(r, text) ==
  \E i \in 1..Len(text) + 1, j \in 0..Len(text) :
    j >= i - 1 /\ ReMatches(r, SubSeq(text, i, j))

\* The UTF-8 encoding of a rune: one byte for a letter of ASCII, two for
\* U+00E9 and U+017F, three for U+20AC.
utf8(rune) ==
  CASE rune = "U+00E9" -> <<"c3", "a9">>
    [] rune = "U+017F" -> <<"c5", "bf">>
    [] rune = "U+20AC" -> <<"e2", "82", "ac">>
    [] OTHER -> <<rune>>

\* string(runes): the bytes of the UTF-8 encodings of the runes.
RECURSIVE string(_)
string(runes) ==
  IF runes = <<>> THEN <<>> ELSE utf8(Head(runes)) \o string(Tail(runes))

\* regexpToQueryRecursive; it does not look at r.Flags.
RECURSIVE regexpToQueryRecursive(_, _)
regexpToQueryRecursive(r, minTextSize) ==
  CASE r.Op = "OpLiteral" ->
         IF Len(string(r.Rune)) >= minTextSize
         THEN Substring(string(r.Rune))
         ELSE Const(TRUE)
    [] r.Op \in {"OpCapture", "OpPlus"} ->
         regexpToQueryRecursive(r.Sub[1], minTextSize)
    [] r.Op = "OpRepeat" ->
         IF r.Min >= 1 THEN regexpToQueryRecursive(r.Sub[1], minTextSize)
         ELSE Const(TRUE)
    [] r.Op = "OpConcat" ->
         And([k \in 1..Len(r.Sub) |->
                regexpToQueryRecursive(r.Sub[k], minTextSize)])
    [] r.Op = "OpAlternate" ->
         Or([k \in 1..Len(r.Sub) |->
               regexpToQueryRecursive(r.Sub[k], minTextSize)])
    [] OTHER -> Const(TRUE)

\* RegexpToQuery.
RegexpToQuery(r, minTextSize) ==
  Simplify(regexpToQueryRecursive(r, minTextSize))

\* The call of RegexpToQuery(r, 3).
RqCall ==
  /\ rq # <<>>
  /\ rq.pc = "call"
  /\ rq' = [rq EXCEPT !.pc = "done", !.q = RegexpToQuery(rq.r, ngramSize)]
  /\ UNCHANGED <<wsh, lr, gl>>
  /\ UNCHANGED notToolVars

\* The texts, and the regexps: literals shorter than, as long as and longer
\* than three bytes, of one-byte runes and of longer ones, the repetitions
\* of a literal, two alternations, and these followed by or alternated with
\* a second regexp MaxReDepth times; two literals have the flag FoldCase,
\* and the texts of "s" and U+017F are there for the second.
Texts ==
  Strings({"a", "b"}, MaxText) \cup Strings({"U+00E9", "U+20AC"}, MaxWide)
    \cup Strings({"s", "U+017F"}, MaxFold)
ReAtoms ==
  {OpLiteral(<<"a", "a", "b">>), OpLiteral(<<"a", "b", "b">>),
   OpLiteral(<<"a", "b">>), OpLiteral(<<"a", "b", "a", "b">>),
   OpLiteral(<<"U+00E9", "U+00E9">>), OpLiteral(<<"U+20AC">>),
   OpLiteral(<<"U+00E9">>),
   OpLiteralFold(<<"A", "A", "B">>), OpLiteralFold(<<"S", "S", "S">>),
   OpAnyChar, OpEmptyMatch}
    \cup {OpUnary(op, OpLiteral(<<"a", "a", "b">>)) :
            op \in {"OpCapture", "OpStar", "OpPlus", "OpQuest"}}
    \cup {OpRepeat(OpLiteral(<<"a", "b", "b">>), min) : min \in 0..1}
    \cup {OpAlternate(<<OpLiteral(<<"a", "a", "b">>), y>>) :
            y \in {OpLiteral(<<"a", "b", "b">>), OpEmptyMatch}}
ReSeconds ==
  {OpLiteral(<<"a", "b", "b">>), OpLiteral(<<"a", "b">>),
   OpUnary("OpStar", OpAnyChar)}
RECURSIVE Regexps(_)
Regexps(d) ==
  IF d = 0 THEN ReAtoms
  ELSE Regexps(d - 1)
         \cup {OpConcat(<<x, y>>) : x \in Regexps(d - 1), y \in ReSeconds}
         \cup {OpAlternate(<<x, y>>) :
                 x \in Regexps(d - 1), y \in ReSeconds}
         \cup {OpUnary("OpPlus", x) : x \in Regexps(d - 1)}

InitRegexp ==
  /\ NoDirectory
  /\ NoSort
  /\ NoDocSearch
  /\ NoFill
  /\ NoList
  /\ NoIndexBuilder
  /\ NoWrite
  /\ NoBuilder
  /\ wsh = <<>>
  /\ lr = <<>>
  /\ gl = <<>>
  /\ rq \in {[pc |-> "call", r |-> r, text |-> t, q |-> <<>>] :
               r \in Regexps(MaxReDepth), t \in Texts}

NextRegexp == RqCall

SpecRegexp == InitRegexp /\ [][NextRegexp]_vars

\* ------------------------------------------------------------ LowerRegexp
\* A character class is the sequence of the bounds of its ranges; runes are
\* code points.
MaxRune == 1114111
OpCharClass(rune) == Regexp("OpCharClass", rune, <<>>, 0)

\* lowerCharClassExcludedAZ, first loop: the exclusive ranges of a-z to
\* remove, from the gap that starts at r[i] on (i counts from 1).
RECURSIVE excludedAZ(_, _)
excludedAZ(r, i) ==
  IF i >= Len(r) THEN <<>>
  ELSE IF r[i] > 90 \/ r[i + 1] < 65 THEN excludedAZ(r, i + 2)
  ELSE <<(IF r[i] < 65 THEN 64 ELSE r[i]) + 32,
         (IF r[i + 1] > 90 THEN 91 ELSE r[i + 1]) + 32>>
         \o excludedAZ(r, i + 2)

\* The exclusions left when those that end at or before a are removed.
RECURSIVE dropBefore(_, _)
dropBefore(excluded, a) ==
  IF Len(excluded) > 0 /\ a >= excluded[2]
  THEN dropBefore(SubSeq(excluded, 3, Len(excluded)), a)
  ELSE excluded

\* What the second loop appends for the range [a, b] with the exclusions
\* left.
copyRange(a, b, excluded) ==
  IF Len(excluded) = 0 \/ b <= excluded[1] THEN <<a, b>>
  ELSE (IF a <= excluded[1] THEN <<a, excluded[1]>> ELSE <<>>)
         \o (IF b >= excluded[2] THEN <<excluded[2], b>> ELSE <<>>)

\* lowerCharClassExcludedAZ, second loop, from the range that starts at r[i].
RECURSIVE copyRanges(_, _, _)
copyRanges(r, i, excluded) ==
  IF i > Len(r) THEN <<>>
  ELSE copyRange(r[i], r[i + 1], dropBefore(excluded, r[i]))
         \o copyRanges(r, i + 2, dropBefore(excluded, r[i]))

lowerCharClassExcludedAZ(r) == copyRanges(r, 1, excludedAZ(r, 2))

\* lowerCharClassAZ: the loop from the range that starts at r[i], on the
\* copy r that grows.
RECURSIVE lowerRangesAZ(_, _, _)
lowerRangesAZ(r, i, l) ==
  IF i > l THEN r
  ELSE IF r[i] > 90 \/ r[i + 1] < 65 THEN lowerRangesAZ(r, i + 2, l)
  ELSE IF r[i] >= 65 /\ r[i + 1] <= 90
  THEN lowerRangesAZ([r EXCEPT ![i] = @ + 32, ![i + 1] = @ + 32], i + 2, l)
  ELSE lowerRangesAZ(r \o <<(IF r[i] < 65 THEN 65 ELSE r[i]) + 32,
                            (IF r[i + 1] > 90 THEN 90 ELSE r[i + 1]) + 32>>,
                     i + 2, l)
lowerCharClassAZ(r) ==
  IF \E k \in 1..Len(r) : k % 2 = 1 /\ r[k] <= 97 /\ r[k + 1] >= 122
  THEN r
  ELSE lowerRangesAZ(r, 1, Len(r))

\* LowerRegexp.
RECURSIVE LowerRegexp(_)
LowerRegexp(r) ==
  CASE r.Op = "OpLiteral" ->
         [r EXCEPT !.Rune =
            [k \in 1..Len(r.Rune) |->
               IF r.Rune[k] >= 65 /\ r.Rune[k] <= 90 THEN r.Rune[k] + 32
               ELSE r.Rune[k]]]
    [] r.Op = "OpCharClass" ->
         IF Len(r.Rune) >= 4 /\ r.Rune[1] = 0
              /\ r.Rune[Len(r.Rune)] = MaxRune
         THEN [r EXCEPT !.Rune = lowerCharClassExcludedAZ(r.Rune)]
         ELSE [r EXCEPT !.Rune = lowerCharClassAZ(r.Rune)]
    [] OTHER ->
         [r EXCEPT !.Sub = [k \in 1..Len(r.Sub) |-> LowerRegexp(r.Sub[k])]]

\* The call of LowerRegexp.
LrCall ==
  /\ lr # <<>>
  /\ lr.pc = "call"
  /\ lr' = [lr EXCEPT !.pc = "done", !.out = LowerRegexp(lr.r)]
  /\ UNCHANGED <<wsh, rq, gl>>
  /\ UNCHANGED notToolVars

\* The exclusion classes: the class of all runes without 1..MaxHoles holes,
\* each a range between two of these runes: 0 9 @ A C M X Z [ a c z.
HoleBounds == {48, 57, 64, 65, 67, 77, 88, 90, 91, 97, 99, 122}
Holes == {h \in HoleBounds \X HoleBounds : h[1] <= h[2]}
\* The class without the holes hs, which lie apart and in order.
RECURSIVE classWithout(_, _)
classWithout(hs, from) ==
  IF hs = <<>> THEN <<from, MaxRune>>
  ELSE <<from, Head(hs)[1] - 1>> \o classWithout(Tail(hs), Head(hs)[2] + 1)
RECURSIVE HoleLists(_)
HoleLists(n) ==
  IF n = 0 THEN {<<>>}
  ELSE HoleLists(n - 1)
         \cup UNION {{Append(hs, h) :
                        h \in {g \in Holes :
                                 \A k \in 1..Len(hs) : hs[k][2] + 1 < g[1]}} :
                      hs \in HoleLists(n - 1)}
ExclusionClasses ==
  {classWithout(hs, 0) : hs \in HoleLists(MaxHoles) \ {<<>>}}

InitLower ==
  /\ NoDirectory
  /\ NoSort
  /\ NoDocSearch
  /\ NoFill
  /\ NoList
  /\ NoIndexBuilder
  /\ NoWrite
  /\ NoBuilder
  /\ wsh = <<>>
  /\ rq = <<>>
  /\ gl = <<>>
  /\ lr \in {[pc |-> "call", r |-> OpCharClass(c), out |-> <<>>] :
               c \in ExclusionClasses}

NextLower == LrCall

SpecLower == InitLower /\ [][NextLower]_vars

\* ------------------------------------------------------ gerritFilterLoader
\* The capacity of the channel between the filter loader and the sharded
\* searcher.
NextCap == 1

\* A *gerritPermissionWrapper reduced to the Searcher it embeds (0 is the
\* nil interface); NoWrapper stands for no wrapper at all.
Wrapper(s) == [ok |-> TRUE, Searcher |-> s]

NoWrapper == [ok |-> FALSE, Searcher |-> 0]

\* newWrapperFromShard, which fails when the shard does not list exactly
\* one repository or is of another host.
newWrapperFromShard(s, fails) ==
  IF fails THEN [wrapper |-> NoWrapper, err |-> "error"]
  ELSE [wrapper |-> Wrapper(s), err |-> "nil"]

\* withNewShard: a new wrapper with the permissions, checker, branches and
\* name of w; its Searcher field is not set.
withNewShard(w, s) == [wrapper |-> Wrapper(0), err |-> "nil"]

\* replace, for a searcher that is not nil: the wrapper it makes.
glWrap(prev, s, fails) ==
  IF prev.ok THEN withNewShard(prev, s) ELSE newWrapperFromShard(s, fails)

\* No event.
NoGlEvent == [Name |-> "a", Searcher |-> NoWrapper]

\* gerritFilterLoader.replace on the event (key, s) taken from the watcher,
\* up to its send; s = 0 is the nil searcher.
gerritReplace(l, key, s, fails) ==
  IF s = 0
  THEN [l EXCEPT !.filtersByShard[key] = NoWrapper]
  ELSE IF glWrap(l.filtersByShard[key], s, fails).err # "nil"
  THEN [l EXCEPT !.closed = @ \cup {s}]
  ELSE [l EXCEPT !.filtersByShard[key] =
                   glWrap(l.filtersByShard[key], s, fails).wrapper,
                 !.pc = "send",
                 !.pending =
                   [Name |-> key,
                    Searcher |-> glWrap(l.filtersByShard[key], s, fails).wrapper]]

\* The filter loader is running: it is there and no goroutine has panicked.
GlLive == gl # <<>> /\ ~gl.panicked

\* len(s.throttle) of the sharded searcher: the permits held by its loop,
\* by Close and by a query.
GlThrottleLen == gl.held.loop + gl.held.closer + gl.held.query

\* loop(): one event of the watcher is received and replace runs on it up
\* to its send; a loaded searcher is a new one.
GlReplace(key, load, fails) ==
  /\ GlLive
  /\ gl.pc = "recv"
  /\ Len(gl.recv) < MaxGerritEvents
  /\ gl' = [gerritReplace(gl, key, IF load THEN gl.nextId ELSE 0, fails)
              EXCEPT !.recv = Append(@, [Name |-> key,
                                         Searcher |-> IF load THEN gl.nextId
                                                      ELSE 0]),
                     !.nextId = IF load THEN @ + 1 ELSE @]
  /\ UNCHANGED <<wsh, rq, lr>>
  /\ UNCHANGED notToolVars

\* replace: the send on shardedSearcherChan, which waits for room in the
\* channel; replace returns and loop() turns to the next event.
GlSend ==
  /\ GlLive
  /\ gl.pc = "send"
  /\ Len(gl.next) < NextCap
  /\ gl' = [gl EXCEPT !.next = Append(@, gl.pending),
                      !.sent = Append(@, gl.pending),
                      !.pending = NoGlEvent,
                      !.pc = "recv"]
  /\ UNCHANGED <<wsh, rq, lr>>
  /\ UNCHANGED notToolVars

\* loop() of the filter loader ends: the watcher has seen its quit channel
\* closed and has closed the channel of its events.
GlLoopExit ==
  /\ GlLive
  /\ gl.pc = "recv"
  /\ gl.quit
  /\ gl' = [gl EXCEPT !.pc = "done"]
  /\ UNCHANGED <<wsh, rq, lr>>
  /\ UNCHANGED notToolVars

\* gerritPermissionWrapper.Close: w.Searcher.Close(), which is a call on a
\* nil interface, and panics, when the wrapper has no Searcher.
wrapperClose(l, w) ==
  IF w.Searcher = 0 THEN [l EXCEPT !.panicked = TRUE]
  ELSE [l EXCEPT !.closed = @ \cup {w.Searcher}]

\* shardLoader.replace(key, w) of the sharded searcher between lock() and
\* unlock(): on a dropped table w is closed; otherwise the wrapper
\* installed under the key is closed and w takes its place.  A panic in
\* Close ends the call.
shardedReplace(l, key, w) ==
  IF l.tableNil THEN (IF w.ok THEN wrapperClose(l, w) ELSE l)
  ELSE IF ~l.table[key].ok THEN [l EXCEPT !.table[key] = w]
  ELSE IF wrapperClose(l, l.table[key]).panicked
  THEN wrapperClose(l, l.table[key])
  ELSE [wrapperClose(l, l.table[key]) EXCEPT !.table[key] = w]

\* loop() of the sharded searcher: it takes an event from the channel.
GlLoopRecv ==
  /\ GlLive
  /\ gl.lpc = "recv"
  /\ gl.next # <<>>
  /\ gl' = [gl EXCEPT !.lev = Head(gl.next),
                      !.next = Tail(@),
                      !.lpc = "lock"]
  /\ UNCHANGED <<wsh, rq, lr>>
  /\ UNCHANGED notToolVars

\* replace() -> lock() of the sharded searcher: one permit.
GlReplaceLock ==
  /\ GlLive
  /\ gl.lpc = "lock"
  /\ GlThrottleLen < ThrottleCap
  /\ gl' = [gl EXCEPT !.held.loop = @ + 1,
                      !.lpc = IF gl.held.loop + 1 = ThrottleCap
                              THEN "body" ELSE "lock"]
  /\ UNCHANGED <<wsh, rq, lr>>
  /\ UNCHANGED notToolVars

\* replace() of the sharded searcher: the statements between lock() and
\* the deferred unlock().
GlReplaceBody ==
  /\ GlLive
  /\ gl.lpc = "body"
  /\ gl' = [shardedReplace(gl, gl.lev.Name, gl.lev.Searcher)
              EXCEPT !.lpc = "unlock"]
  /\ UNCHANGED <<wsh, rq, lr>>
  /\ UNCHANGED notToolVars

\* replace() -> unlock() of the sharded searcher: one permit; after the
\* last, replace returns and the loop turns to the next event.
GlReplaceUnlock ==
  /\ GlLive
  /\ gl.lpc = "unlock"
  /\ gl' = [gl EXCEPT !.held.loop = @ - 1,
                      !.lpc = IF gl.held.loop = 1 THEN "recv" ELSE "unlock",
                      !.lev = IF gl.held.loop = 1 THEN NoGlEvent ELSE @]
  /\ UNCHANGED <<wsh, rq, lr>>
  /\ UNCHANGED notToolVars

\* gerritFilterLoader.Close: l.watcher.Close(), which closes the quit
\* channel of the watcher; l.Searcher.Close() follows.
GlClose ==
  /\ GlLive
  /\ gl.cpc = "idle"
  /\ gl.closes < MaxGerritCloses
  /\ gl' = [gl EXCEPT !.quit = TRUE,
                      !.closes = @ + 1,
                      !.cpc = "lock"]
  /\ UNCHANGED <<wsh, rq, lr>>
  /\ UNCHANGED notToolVars

\* gerritFilterLoader.Close -> shardLoader.Close -> lock(): one permit.
GlCloseLock ==
  /\ GlLive
  /\ gl.cpc = "lock"
  /\ GlThrottleLen < ThrottleCap
  /\ gl' = [gl EXCEPT !.held.closer = @ + 1,
                      !.cpc = IF gl.held.closer + 1 = ThrottleCap
                              THEN "body" ELSE "lock"]
  /\ UNCHANGED <<wsh, rq, lr>>
  /\ UNCHANGED notToolVars

\* The wrappers installed in the sharded searcher.
GlInstalled(l) == {l.table[k] : k \in Names} \ {NoWrapper}

\* shardLoader.Close between lock() and unlock(): every installed wrapper
\* is closed and the table is dropped.  Close of a wrapper without Searcher
\* panics; the wrappers closed before it are those the iteration of the
\* map came to first, which is any part of the others.
shardLoaderClose(l) ==
  IF Wrapper(0) \in GlInstalled(l)
  THEN {[l EXCEPT !.closed = @ \cup {w.Searcher : w \in done},
                  !.panicked = TRUE] :
          done \in SUBSET (GlInstalled(l) \ {Wrapper(0)})}
  ELSE {[l EXCEPT !.closed = @ \cup {w.Searcher : w \in GlInstalled(l)},
                  !.table = [k \in Names |-> NoWrapper],
                  !.tableNil = TRUE,
                  !.cpc = "unlock"]}

\* gerritFilterLoader.Close -> shardLoader.Close: the body.
GlCloseBody ==
  /\ GlLive
  /\ gl.cpc = "body"
  /\ gl' \in shardLoaderClose(gl)
  /\ UNCHANGED <<wsh, rq, lr>>
  /\ UNCHANGED notToolVars

\* shardLoader.Close -> unlock(): one permit; after the last, Close
\* returns.
GlCloseUnlock ==
  /\ GlLive
  /\ gl.cpc = "unlock"
  /\ gl' = [gl EXCEPT !.held.closer = @ - 1,
                      !.cpc = IF gl.held.closer = 1 THEN "idle" ELSE "unlock"]
  /\ UNCHANGED <<wsh, rq, lr>>
  /\ UNCHANGED notToolVars

\* Search or List of the sharded searcher: rlock().
GlSearchRlock ==
  /\ GlLive
  /\ gl.qpc = "idle"
  /\ GlThrottleLen < ThrottleCap
  /\ gl' = [gl EXCEPT !.held.query = @ + 1, !.qpc = "run"]
  /\ UNCHANGED <<wsh, rq, lr>>
  /\ UNCHANGED notToolVars

\* Search of the sharded searcher, the goroutine of a wrapper without
\* Searcher whose permission check passes: w.Searcher.Search panics, and
\* the deferred function that recovers calls s.String(), which is
\* w.Searcher.String() and panics again, with nothing to recover it.
GlSearchCrash ==
  /\ GlLive
  /\ gl.qpc = "run"
  /\ Wrapper(0) \in GlInstalled(gl)
  /\ gl' = [gl EXCEPT !.panicked = TRUE]
  /\ UNCHANGED <<wsh, rq, lr>>
  /\ UNCHANGED notToolVars

\* Search or List of the sharded searcher: the deferred runlock().  The
\* searches of the wrappers change nothing of the loader.
GlSearchRunlock ==
  /\ GlLive
  /\ gl.qpc = "run"
  /\ gl' = [gl EXCEPT !.held.query = @ - 1, !.qpc = "idle"]
  /\ UNCHANGED <<wsh, rq, lr>>
  /\ UNCHANGED notToolVars

\* NewGerritSearcher: no wrapper, no event received or forwarded, nothing
\* installed in the sharded searcher, whose loop waits for an event; no
\* permit of its throttle is held.
InitGerrit ==
  /\ NoDirectory
  /\ NoSort
  /\ NoDocSearch
  /\ NoFill
  /\ NoList
  /\ NoIndexBuilder
  /\ NoWrite
  /\ NoBuilder
  /\ wsh = <<>>
  /\ rq = <<>>
  /\ lr = <<>>
  /\ gl = [filtersByShard |-> [k \in Names |-> NoWrapper], recv |-> <<>>,
           sent |-> <<>>, closed |-> {}, nextId |-> 1, pc |-> "recv",
           pending |-> NoGlEvent, next |-> <<>>,
           table |-> [k \in Names |-> NoWrapper], tableNil |-> FALSE,
           panicked |-> FALSE, lpc |-> "recv", lev |-> NoGlEvent,
           held |-> [loop |-> 0, closer |-> 0, query |-> 0],
           quit |-> FALSE, closes |-> 0, cpc |-> "idle", qpc |-> "idle"]

NextGerrit ==
  \/ \E key \in Names, load \in BOOLEAN, fails \in BOOLEAN :
       GlReplace(key, load, fails)
  \/ GlSend
  \/ GlLoopExit
  \/ GlLoopRecv
  \/ GlReplaceLock
  \/ GlReplaceBody
  \/ GlReplaceUnlock
  \/ GlClose
  \/ GlCloseLock
  \/ GlCloseBody
  \/ GlCloseUnlock
  \/ GlSearchRlock
  \/ GlSearchCrash
  \/ GlSearchRunlock

SpecGerrit == InitGerrit /\ [][NextGerrit]_vars

\* ------------------------------------------------------------ properties
Range(f) == {f[i] : i \in DOMAIN f}

\* The per-shard goroutines of the Search call that have not returned yet.
Outstanding == {s \in snapshot : gPc[s] \in {"ready", "run"}}

\* C1: while a per-shard Search call of the snapshot has not returned, no
\* searcher of the snapshot has been closed, also after Search returned
\* early on a shard's error.
NoShardClosedWhileSearched ==
  Outstanding # {} => \A s \in snapshot : closeCount[s] = 0

Panicked == {s \in snapshot : gRes[s].kind = "panic"}

Errored == {s \in snapshot : gRes[s].kind = "err"}

\* C2: when exactly one shard of the snapshot panics and none reports an
\* error, the table still is the snapshot with no searcher closed while
\* Search runs, and Search returns no error, Crashes = 1 and the files of
\* every other shard.
CrashIsolated ==
  (Cardinality(Panicked) = 1 /\ Errored = {}) =>
    /\ sPc = "agg" =>
         /\ getShards = snapshot
         /\ \A s \in snapshot : closeCount[s] = 0
    /\ sPc = "done" =>
         /\ ~retErr
         /\ aggCrashes = 1
         /\ \A s \in snapshot \ Panicked :
              Range(gRes[s].sr.Files) \subseteq Range(aggFiles)

\* C2 witness: Search has returned from two shards, one of which panicked
\* while the other returned a file.
CrashIsolatedWitness ==
  /\ sPc = "done"
  /\ Cardinality(snapshot) = 2
  /\ Cardinality(Panicked) = 1
  /\ \E s \in snapshot : gRes[s].sr.Files # <<>>

\* C3: the body of replace runs with every permit held by its goroutine
\* and, on a table that is not closed, leaves the searcher of the event under
\* the event's name (no entry for a nil searcher), closes the searcher that
\* was stored under the name and leaves every other entry alone.
ReplaceFrame ==
  [][(loopPc = "body" /\ loopPc' = "unlock") =>
       /\ held["loop"] = NumCPU
       /\ held["search"] = 0 /\ held["closer"] = 0
       /\ ~shardsNil =>
            /\ shards'[loopEv.Name] = loopEv.Searcher
            /\ \A k \in Names \ {loopEv.Name} : shards'[k] = shards[k]
            /\ shards[loopEv.Name] # 0 =>
                 closeCount'[shards[loopEv.Name]] =
                   closeCount[shards[loopEv.Name]] + 1]_vars

\* C3 witness: replace has put a new searcher in the place of one it closed.
ReplaceFrameWitness ==
  /\ loopPc = "unlock"
  /\ ~shardsNil
  /\ loopEv.Searcher # 0
  /\ shards[loopEv.Name] = loopEv.Searcher
  /\ \E s \in SearcherIds : closeCount[s] = 1

\* C4: the aggregation loop has cancelled the child context exactly when
\* the running MatchCount exceeds TotalMaxMatchCount, and Search returns
\* only after it has taken one result per shard.
CancelOverCapCollectAll ==
  /\ sPc \in {"agg", "done"} =>
       cancelCalls = IF aggMatch > totalMax THEN 1 ELSE 0
  /\ sPc = "done" => received = Cardinality(snapshot)

\* Position of the file with identity id in ms.
Pos(ms, id) == CHOOSE i \in 1..Len(ms) : ms[i].Id = id

Descending(ms) == \A i \in 1..Len(ms) - 1 : ms[i].Score >= ms[i + 1].Score

\* C5, with stability: the sorted list is ordered by non-increasing Score and
\* files of equal Score keep their relative order.
SortedStable ==
  sortPc = "out" =>
    /\ Descending(sortOut)
    /\ \A i, j \in 1..Len(sortIn) :
         (i < j /\ sortIn[i].Score = sortIn[j].Score) =>
           Pos(sortOut, sortIn[i].Id) < Pos(sortOut, sortIn[j].Id)

\* C5, order only: the sorted list holds the same files ordered by
\* non-increasing Score; nothing is said of the order of equal scores.
SortedDescending ==
  sortPc = "out" =>
    /\ Descending(sortOut)
    /\ Len(sortOut) = Len(sortIn)
    /\ Range(sortOut) = Range(sortIn)

\* C5 witness: a list with two files of equal Score and one of a higher
\* Score behind them has been sorted.
SortedWitness ==
  /\ sortPc = "out"
  /\ \E i, j, k \in 1..Len(sortIn) :
       /\ i < j /\ j < k
       /\ sortIn[i].Score = sortIn[j].Score
       /\ sortIn[j].Score < sortIn[k].Score

\* The last rescan has run to its end (update has returned).
RescanDone == hist.scanned /\ swPc \in {"select", "done"}

\* C6: after a rescan, every name that was known and is not on disk has
\* been announced by exactly one event with a nil Searcher and is no longer
\* known, whatever the directory holds.
EvictsMissing ==
  RescanDone =>
    \A k \in Keys(hist.known) :
      hist.seen[k] = 0 => (hist.evict[k] = 1 /\ swShards[k] = 0)

\* C7: after a rescan, every file on disk that was unknown or had another
\* mtime and whose load succeeded has been announced by exactly one event
\* carrying the new searcher and is cached with its mtime on disk; a file
\* whose mtime was the cached one has been announced by no event.
LoadsChanged ==
  RescanDone =>
    \A k \in Keys(hist.seen) :
      IF hist.known[k] = 0 \/ hist.known[k] # hist.seen[k]
      THEN k \notin hist.failed =>
             /\ hist.load[k] = 1
             /\ hist.evict[k] = 0
             /\ hist.sent[k] >= hist.mark
             /\ swShards[k] = hist.seen[k]
      ELSE hist.load[k] = 0 /\ hist.evict[k] = 0

\* C7 witness: a rescan has reloaded a known file whose mtime had changed.
LoadsChangedWitness ==
  /\ RescanDone
  /\ \E k \in Keys(hist.seen) :
       /\ hist.known[k] # 0
       /\ hist.known[k] # hist.seen[k]
       /\ hist.load[k] = 1

\* Every event sent has been applied by replace.
Quiet == sink = <<>> /\ loopPc = "recv"

\* C8: after a rescan in which the load of a file failed, no event has been
\* sent for its name, its cached mtime is what it was (so it still differs
\* from the mtime on disk and the next rescan loads again), and once the
\* events sent earlier are applied the searcher installed under the name is
\* still installed and open.
FailedLoadKeepsShard ==
  RescanDone =>
    \A k \in hist.failed :
      /\ hist.load[k] = 0 /\ hist.evict[k] = 0
      /\ swShards[k] = hist.known[k]
      /\ swShards[k] # hist.seen[k]
      /\ (Quiet /\ hist.known[k] # 0 /\ ~shardsNil) =>
           (shards[k] # 0 /\ closeCount[shards[k]] = 0)

\* C8 witness: the reload of a loaded, changed file has failed and its old
\* searcher is in the table.
FailedLoadWitness ==
  /\ RescanDone
  /\ Quiet
  /\ \E k \in hist.failed : hist.known[k] # 0 /\ shards[k] # 0

\* The two writers wait for each other: each is inside lock() and together
\* they hold every permit.
WritersStuck ==
  /\ loopPc = "lock"
  /\ clPc = "lock"
  /\ held["loop"] + held["closer"] = NumCPU

\* C9: once ShardWatcher.Close has closed the quit channel, the goroutine
\* of the watcher eventually closes the sink, unless the consumer has
\* stopped taking events.
WatcherStops == quitClosed ~> (sinkClosed \/ WritersStuck)

\* C10: a call of dirSearcher.Close eventually returns, and when it has
\* returned the table is dropped and every searcher that replace or Close
\* found in it has been closed.
CloseCompletes ==
  /\ (clPc # "idle") ~> (clPc = "done")
  /\ [](clPc = "done" =>
          /\ shardsNil
          /\ Keys(shards) = {}
          /\ \A s \in SearcherIds :
               \/ closeCount[s] > 0
               \/ s >= nextId
               \/ s = swSend.Searcher
               \/ s \in {e.Searcher : e \in Range(sink)}
               \/ (s = loopEv.Searcher /\ loopPc \in {"lock", "body"}))

\* ------------------------------------------- properties of indexData.Search
\* Whether the tree t is true of document d, read off the index: a substring
\* leaf is true when a candidate of d is confirmed by the content, a regexp
\* leaf when the regexp finds something in d, a branch leaf when d is in the
\* branch, a document leaf when d is listed, the brute-force leaf always.
RECURSIVE Truth(_, _)
Truth(t, d) ==
  CASE t.kind = "and" -> \A i \in 1..Len(t.ch) : Truth(t.ch[i], d)
    [] t.kind = "or" -> \E i \in 1..Len(t.ch) : Truth(t.ch[i], d)
    [] t.kind = "not" -> ~Truth(t.ch[1], d)
    [] t.kind = "noVisit" -> Truth(t.ch[1], d)
    [] t.kind = "substr" ->
         \E c \in Range(atoms0[t.id].cands) :
           c.file = d /\ (atoms0[t.id].coversContent \/ c.real)
    [] t.kind = "regexp" -> \E c \in Range(atoms0[t.id].hits) : c.file = d
    [] t.kind = "branch" ->
         BitAnd(atoms0[t.id].mask, fileBranchMasks[d + 1]) # 0
    [] t.kind = "doc" -> d \in Range(atoms0[t.id].docs)
    [] t.kind = "brute" -> TRUE

\* The kinds of the leaves of the tree.
LeafKinds == {l.kind : l \in Range(collectAtoms(mt))}

\* C11: the document ids passed to mt.prepare are strictly increasing and
\* below docCount, whatever the tree's nextDoc returns, so the loop makes at
\* most docCount iterations.
PreparedIncreasing ==
  /\ \A i \in 1..Len(prepared) - 1 : prepared[i] < prepared[i + 1]
  /\ \A i \in 1..Len(prepared) : prepared[i] < docCount
  /\ Len(prepared) <= docCount

\* A negation, whose nextDoc is always 0, has been taken through every
\* document of the shard.
PreparedIncreasingWitness ==
  /\ dPc = "done"
  /\ mt.kind = "not"
  /\ Len(prepared) = docCount
  /\ docCount > 1

\* C12: the evalMatchTree call made after the file-name atoms, the content
\* atoms and the regexp atoms are evaluated is sure: Search never panics
\* with "did not decide".
AlwaysDecides == dPc # "panic"

\* A document matched a conjunction of a substring that needed checking
\* against the content and a negated or unvisited regexp or substring.
AlwaysDecidesWitness ==
  /\ dPc = "done"
  /\ res.Files # <<>>
  /\ mt.kind = "and"
  /\ mt.ch[2].kind \in {"not", "noVisit"}
  /\ mt.ch[1].kind = "substr" /\ ~atoms0[1].coversContent
  /\ mt.ch[2].ch[1].kind \in {"regexp", "substr"}

\* C13: when Search ends without having been cancelled and without having
\* skipped a document for a cap, every document of which the tree is true
\* has been visited.
VisitsEveryMatch ==
  (dPc = "done" /\ ~canceled /\ res.Stats.FilesSkipped = 0)
    => \A d \in 0..docCount - 1 : Truth(mt, d) => d \in Range(prepared)

\* The loop jumped past a document and still found a match.
VisitsEveryMatchWitness ==
  /\ dPc = "done" /\ ~canceled /\ res.Stats.FilesSkipped = 0
  /\ mt.kind \in {"and", "or"}
  /\ Len(prepared) < docCount
  /\ res.Files # <<>>

\* C14: an iteration that runs with canceled set appends no file and leaves
\* MatchCount and FileCount alone, and if it visits a document it adds one
\* to FilesConsidered and one to FilesSkipped; so the files returned are
\* those matched before the cancellation was observed.
CancelFrame ==
  [][canceled' =>
       /\ Len(res'.Files) = Len(res.Files)
       /\ Range(res'.Files) = Range(res.Files)
       /\ res'.Stats.MatchCount = res.Stats.MatchCount
       /\ res'.Stats.FileCount = res.Stats.FileCount
       /\ lastDoc' # lastDoc =>
            /\ res'.Stats.FilesConsidered = res.Stats.FilesConsidered + 1
            /\ res'.Stats.FilesSkipped = res.Stats.FilesSkipped + 1]_vars

\* Search was cancelled after it had matched a file, skipped a document and
\* returned.
CancelFrameWitness ==
  /\ dPc = "done"
  /\ canceled
  /\ res.Files # <<>>
  /\ res.Stats.FilesSkipped > 0

\* C15: the result of Search reports a MatchCount of at most
\* opts.ShardMaxMatchCount.
MatchCountCapped ==
  dPc = "done" => res.Stats.MatchCount <= opts.ShardMaxMatchCount

\* The branch leaves gatherBranches reaches in a tree that is true of d: the
\* leaves below and/or nodes only, every node on the way being true of d.
RECURSIVE VisitedBranches(_, _)
VisitedBranches(t, d) ==
  CASE t.kind \in {"and", "or"} ->
         UNION {VisitedBranches(t.ch[i], d) :
                  i \in {j \in 1..Len(t.ch) : Truth(t.ch[j], d)}}
    [] t.kind = "branch" -> {atoms0[t.id].mask}
    [] OTHER -> {}

\* The branches a mask names.
BranchesOf(mask) == {b \in 1..mask : BitAnd(b, mask) = b /\ BitAnd(b, b - 1) = 0}

\* C20: a file's Branches are the branches of the branch atoms that matched
\* and were visited, if there is one, and else the branches of the
\* document's mask; and under a conjunction with a branch atom no document
\* outside that branch is matched.
BranchesListed ==
  \A i \in 1..Len(res.Files) :
    LET fm == res.Files[i]
        vb == VisitedBranches(mt, fm.Id)
    IN /\ Range(fm.Branches) =
            IF vb # {} THEN vb ELSE BranchesOf(fileBranchMasks[fm.Id + 1])
       /\ \A j \in 1..Len(mt.ch) :
            (mt.kind = "and" /\ mt.ch[j].kind = "branch")
              => BitAnd(atoms0[mt.ch[j].id].mask, fileBranchMasks[fm.Id + 1]) # 0

\* A file in both branches matched a query for the second branch, a file in
\* the first branch only did not, and the file lists the second branch only.
BranchesListedWitness ==
  /\ dPc = "done"
  /\ mt.kind = "and"
  /\ mt.ch[2].kind = "branch" /\ atoms0[2].mask = 2
  /\ mt.ch[1].kind = "substr"
  /\ \E i \in 1..Len(res.Files) :
       /\ fileBranchMasks[res.Files[i].Id + 1] = 3
       /\ res.Files[i].Branches = <<2>>
  /\ \E d \in 0..docCount - 1 :
       /\ fileBranchMasks[d + 1] = 1
       /\ Truth(mt.ch[1], d)
       /\ \A i \in 1..Len(res.Files) : res.Files[i].Id # d

\* ---------------------------------------------- properties of gatherMatches
\* The bytes covered by the candidates cs.
Bytes(cs) ==
  UNION {c.byteOffset..(c.byteOffset + c.byteMatchSz - 1) : c \in Range(cs)}

\* The candidates that remain when file-name candidates give way to content
\* candidates.
ContentWins(cs) ==
  IF \E c \in Range(cs) : ~c.fileName
  THEN SelectSeq(cs, LAMBDA c : ~c.fileName) ELSE cs

\* C16: the result of gatherMatches is in order of byte offset, consecutive
\* results neither overlap nor touch, and together they cover the bytes
\* covered by the candidates left after file-name candidates are dropped in
\* favour of content candidates.
GatherMerges ==
  gathered # <<>> =>
    /\ \A i \in 1..Len(gathered.out) - 1 :
         gathered.out[i].byteOffset + gathered.out[i].byteMatchSz
           < gathered.out[i + 1].byteOffset
    /\ Bytes(gathered.out) = Bytes(ContentWins(gathered.in))

\* gatherMatches was handed candidates out of order, dropped a file-name
\* candidate or fused candidates, and returned two results.
GatherMergesWitness ==
  /\ gathered # <<>>
  /\ Len(gathered.in) >= 3
  /\ \E i \in 1..Len(gathered.in) - 1 :
       gathered.in[i].byteOffset > gathered.in[i + 1].byteOffset
  /\ Len(gathered.out) = 2
  /\ \E i \in 1..Len(gathered.in) - 1 :
       gathered.in[i].byteOffset + gathered.in[i].byteMatchSz
         = gathered.in[i + 1].byteOffset

\* -------------------------------------------------- properties of fillMatch
\* The offset of the first newline at or after byte k, or the file size.
LineEndAfter(data, k) ==
  LET r == IndexByte(data, k) IN IF r = -1 THEN Len(data) ELSE k + r

\* C17: for a content candidate that ends within the file, fillMatch
\* returns, and the line range it returns starts at or before the match and
\* ends at the first newline at or after the end of the match, also when
\* the match spans a line terminator.
FillMatchLineRange ==
  (~fmCand.fileName /\ fmPc \in {"done", "panic"}) =>
    /\ fmPc = "done"
    /\ fmMatch.LineStart <= fmCand.offset
    /\ fmMatch.LineEnd >= fmCand.offset + fmCand.matchSz
    /\ fmMatch.LineEnd = LineEndAfter(fmData, fmCand.offset + fmCand.matchSz)

\* ---------------------------------------------- properties of indexData.List
\* What a query is worth on a repository, without simplifying it: "T" or
\* "F" when the repository name alone decides it, "U" when it depends on
\* the content.
RECURSIVE Worth(_, _)
Worth(name, q) ==
  CASE q.kind = "const" -> IF q.Value THEN "T" ELSE "F"
    [] q.kind = "repo" ->
         IF \/ q.Pattern = <<>>
            \/ \E k \in 1..Len(name) : \E j \in k..Len(name) :
                 SubSeq(name, k, j) = q.Pattern
         THEN "T" ELSE "F"
    [] q.kind = "substr" -> IF Len(q.Pattern) = 0 THEN "T" ELSE "U"
    [] q.kind = "not" ->
         LET w == Worth(name, q.Child)
         IN IF w = "T" THEN "F" ELSE IF w = "F" THEN "T" ELSE "U"
    [] q.kind = "and" ->
         LET ws == {Worth(name, q.Children[k]) : k \in 1..Len(q.Children)}
         IN IF "F" \in ws THEN "F" ELSE IF "U" \in ws THEN "U" ELSE "T"
    [] q.kind = "or" ->
         LET ws == {Worth(name, q.Children[k]) : k \in 1..Len(q.Children)}
         IN IF "T" \in ws THEN "T" ELSE IF "U" \in ws THEN "U" ELSE "F"

\* C18 as stated: List returns the shard's repository entry when the query
\* simplifies to Const(true), and an empty list without error for every
\* other query, also one that does not simplify to a constant.
ListEmptyOtherwise ==
  ilPc = "done" =>
    /\ ~ilOut.err
    /\ ~ilOut.nil
    /\ ilOut.Repos = IF Worth(ilName, ilQuery) = "T"
                     THEN <<[Name |-> ilName]>> ELSE <<>>

\* C18, amended: List returns the shard's repository entry when the query
\* simplifies to Const(true), an empty list without error when it simplifies
\* to Const(false), and no list and an error when it does not simplify to a
\* constant.
ListConstOrError ==
  ilPc = "done" =>
    LET w == Worth(ilName, ilQuery)
    IN /\ ilOut.err = (w = "U")
       /\ ilOut.nil = (w = "U")
       /\ ilOut.Repos = IF w = "T" THEN <<[Name |-> ilName]>> ELSE <<>>
       /\ ilOut.Crashes = 0

\* List has refused a query that mixes a repository atom that holds with a
\* content atom.
ListConstOrErrorWitness ==
  /\ ilPc = "done"
  /\ ilOut.err
  /\ ilQuery.kind = "and"
  /\ \E k \in 1..Len(ilQuery.Children) :
       ilQuery.Children[k].kind = "repo"
       /\ Worth(ilName, ilQuery.Children[k]) = "T"

\* -------------------------------------------- properties of shardLoader.List
\* The shards whose List returned an entry of the repository called name.
ShardsOf(name) ==
  {k \in DOMAIN slShards :
     /\ ~slShards[k].panics
     /\ \E j \in 1..Len(slShards[k].out.Repos) :
          slShards[k].out.Repos[j].Name = name}

\* The sum of the Stats that the first k shards report for name.
RECURSIVE StatsOf(_, _)
StatsOf(name, k) ==
  IF k = 0 THEN 0
  ELSE StatsOf(name, k - 1)
       + (IF k \in ShardsOf(name) THEN slShards[k].out.Repos[1].Stats ELSE 0)

\* C19: shardLoader.List returns one entry for each repository name found
\* in the shards, sorted by name, with the sum of the Stats of that
\* repository's entries, and as many Crashes as shards whose List panicked.
ListAggregates ==
  slPc = "done" =>
    /\ ~slOut.err /\ ~slOut.nil
    /\ \A k \in 1..Len(slOut.Repos) - 1 :
         StrLess(slOut.Repos[k].Name, slOut.Repos[k + 1].Name)
    /\ {slOut.Repos[k].Name : k \in 1..Len(slOut.Repos)}
         = {n \in {<<2>>, <<1, 2>>} : ShardsOf(n) # {}}
    /\ \A k \in 1..Len(slOut.Repos) :
         slOut.Repos[k].Stats = StatsOf(slOut.Repos[k].Name, Len(slShards))
    /\ slOut.Crashes = Cardinality({k \in DOMAIN slShards : slShards[k].panics})

\* List has returned after one shard panicked and two shards reported the
\* same repository.
ListAggregatesWitness ==
  /\ slPc = "done"
  /\ slOut.Crashes = 1
  /\ \E k \in 1..Len(slOut.Repos) :
       Cardinality(ShardsOf(slOut.Repos[k].Name)) = 2

\* ------------------------------------------------ properties of IndexBuilder
\* The last call was an Add that stored its document.
Stored == ibLast # <<>> /\ Len(ib.files) = Len(ibLast.before.files) + 1

\* The sections secs are in the order of their Start, and one of them
\* starts before the one before it ends.
StartsBeforePreviousEnds(secs) ==
  /\ \A k \in 1..Len(secs) - 1 : secs[k].Start <= secs[k + 1].Start
  /\ \E k \in 1..Len(secs) - 1 : secs[k + 1].Start < secs[k].End

\* C21, as claimed: Add returns "sections overlap" exactly when, the
\* sections being sorted by Start, one starts before the previous one ends
\* (for a call that returns before it sorts: when this is so however the
\* sections of equal Start are ordered); and the builder is then as it was
\* before the call.
OverlapRejectedAlways ==
  (ibLast # <<>> /\ ibLast.call = "Add") =>
    /\ ibLast.err =>
         /\ StartsBeforePreviousEnds(ibLast.symbols)
         /\ ib = ibLast.before
    /\ (\A sorted \in sortSections(ibLast.doc.Symbols) :
          StartsBeforePreviousEnds(sorted)) => ibLast.err

\* C21, amended: Add returns "sections overlap" exactly when the document
\* is not dropped by the trigram test and, the sections being sorted by
\* Start, one starts before the previous one ends; the builder is then as
\* it was before the call; and a stored document has the sorted sections.
OverlapRejected ==
  (ibLast # <<>> /\ ibLast.call = "Add") =>
    /\ ibLast.err <=>
         /\ ~probablyNotText(ibLast.doc.Content)
         /\ StartsBeforePreviousEnds(ibLast.symbols)
    /\ ibLast.err => ib = ibLast.before
    /\ Stored =>
         /\ ~ibLast.err
         /\ ~StartsBeforePreviousEnds(ibLast.symbols)
         /\ ib.docSections[Len(ib.docSections)] = ibLast.symbols
    /\ \E f \in Permutations(1..Len(ibLast.symbols)) :
         ibLast.symbols = [k \in 1..Len(ibLast.symbols) |-> ibLast.doc.Symbols[f[k]]]

\* Add has rejected overlapping sections on a builder that holds a document.
OverlapRejectedWitness ==
  /\ ibLast # <<>>
  /\ ibLast.call = "Add"
  /\ ibLast.err
  /\ Len(ib.files) = 1
  /\ ib.branches # <<>>

\* C23: every stored document has a branch mask with at least one bit, and
\* every bit of it is the id of a registered branch.
MasksOfBranches ==
  ib # <<>> =>
    \A d \in 1..Len(ib.branchMasks) :
      /\ ib.branchMasks[d] # {}
      /\ \A k \in ib.branchMasks[d] :
           \E br \in DOMAIN ib.branches : ib.branches[br] = {k}

\* The bytes of the strings strs one after the other.
RECURSIVE Concat(_)
Concat(strs) ==
  IF strs = <<>> THEN <<>> ELSE Head(strs).data \o Concat(Tail(strs))

\* The three bytes of trigram t.
TrigramBytes(t) == <<t \div 65536, (t \div 256) % 256, t % 256>>

\* Every posting list is strictly increasing, and each of its offsets is a
\* place of the concatenated strings where the trigram stands.
PostingsIncrease(strs, postings) ==
  \A t \in DOMAIN postings :
    /\ \A k \in 1..Len(postings[t]) - 1 : postings[t][k] < postings[t][k + 1]
    /\ \A k \in 1..Len(postings[t]) :
         SubSeq(Concat(strs), postings[t][k] + 1, postings[t][k] + 3)
           = TrigramBytes(t)

\* C24: every content posting list and every name posting list is strictly
\* increasing, and its offsets are positions in the concatenation of the
\* accepted documents in the order of their addition.
PostingsSorted ==
  ib # <<>> =>
    /\ PostingsIncrease(ib.files, ib.contentPostings)
    /\ PostingsIncrease(ib.fileNames, ib.namePostings)

\* Two stored documents hold the same trigram.
PostingsSortedWitness ==
  /\ ib # <<>>
  /\ Len(ib.files) = 2
  /\ \E t \in DOMAIN ib.contentPostings :
       \E k \in 1..Len(ib.contentPostings[t]) :
         /\ ib.contentPostings[t][1] < ib.files[2].offset
         /\ ib.contentPostings[t][k] >= ib.files[2].offset

\* The places of trigrams in the strings: a trigram and the offset of three
\* bytes that lie inside one string and equal it.
Occurrences(strs) ==
  {<<bytesToNGram(SubSeq(strs[d].data, k, k + 2)), strs[d].offset + k - 1>> :
     <<d, k>> \in {x \in (1..Len(strs)) \X (1..MaxContent + 7) :
                     x[2] + 2 <= Len(strs[x[1]].data)}}

\* The entries of the posting lists as pairs of trigram and offset.
Posted(postings) ==
  {<<t, postings[t][k]>> :
     <<t, k>> \in {x \in (DOMAIN postings) \X (1..2 * (MaxContent + 7)) :
                     x[2] <= Len(postings[x[1]])}}

\* C25: an offset is in the posting list of a trigram exactly when the three
\* bytes at the offset lie inside one accepted document and equal the
\* trigram.
PostingsExact ==
  ib # <<>> =>
    /\ Posted(ib.contentPostings) = Occurrences(ib.files)
    /\ Posted(ib.namePostings) = Occurrences(ib.fileNames)
    /\ \A t \in DOMAIN ib.contentPostings : ib.contentPostings[t] # <<>>

\* A file of three bytes and a file of two bytes are stored, the two
\* together holding one trigram.
PostingsExactWitness ==
  /\ ib # <<>>
  /\ Len(ib.files) = 2
  /\ Len(ib.files[1].data) = 2
  /\ Len(ib.files[2].data) = 3
  /\ Cardinality(Posted(ib.contentPostings)) = 1

\* The sum of the lengths of the first n of the strings strs.
RECURSIVE LengthOf(_, _)
LengthOf(strs, n) ==
  IF n = 0 THEN 0 ELSE LengthOf(strs, n - 1) + Len(strs[n].data)

\* C26: the per-document arrays have one length, contentEnd is the sum of
\* the lengths of the accepted contents, and each content starts where the
\* ones before it end.
ArraysAligned ==
  ib # <<>> =>
    /\ Len(ib.fileNames) = Len(ib.files)
    /\ Len(ib.docSections) = Len(ib.files)
    /\ Len(ib.branchMasks) = Len(ib.files)
    /\ ib.contentEnd = LengthOf(ib.files, Len(ib.files))
    /\ \A d \in 1..Len(ib.files) :
         ib.files[d].offset = LengthOf(ib.files, d - 1)

\* A document was stored, and the next call was rejected.
ArraysAlignedWitness ==
  /\ ib # <<>>
  /\ Len(ib.files) = 1
  /\ ib.contentEnd > 0
  /\ ibLast.err
  /\ ibLeft = 0

\* The trigrams of content.
Trigrams(content) ==
  {SubSeq(content, k, k + 2) : k \in 1..Len(content) - 2}

\* C27: Add drops, returning nil and leaving the builder as it was, exactly
\* the documents with more than maxTrigramCount distinct trigrams.
SkipsManyTrigrams ==
  (ibLast # <<>> /\ ibLast.call = "Add") =>
    ((~ibLast.err /\ ib = ibLast.before)
       <=> Cardinality(Trigrams(ibLast.doc.Content)) > maxTrigramCount)

\* C22: a shard takes 32 branch names, which get the ids 1 << 0 .. 1 << 31
\* in the order in which they are first seen; a 33rd name is rejected and
\* never gives a zero, cut or shared mask bit.
BranchIdsDistinct ==
  ib # <<>> =>
    /\ Cardinality(DOMAIN ib.branches) <= 32
    /\ \A br \in DOMAIN ib.branches : uint32Of(ib.branches[br]) = {br - 1}
    /\ \A d \in 1..Len(ib.branchMasks) : ib.branchMasks[d] # {}

\* The chunks of the file that are section bodies, in the order written.
BodyOrder ==
  [i \in {j \in 1..Len(wrW.out) : wrW.out[j].sec \in sectionNames} |->
     wrW.out[i].sec]

\* The chunk that holds the body of section sec.
BodyOf(sec) ==
  wrW.out[CHOOSE i \in 1..Len(wrW.out) : wrW.out[i].sec = sec]

\* C28 as stated: Write emits the section bodies in the order in which the
\* TOC lists them, unaryData first, then the TOC, then the TOC locator.
BodiesInTOCOrder ==
  wrPc = "done" =>
    /\ BodyOrder = sections
    /\ wrW.out[Len(sections) + 1].sec = "toc"
    /\ wrW.out[Len(wrW.out)].sec = "locator"

\* C28, amended: Write lays the section bodies end to end from offset 0 with
\* fileContents first and unaryData last, each section once; the TOC comes
\* right after the last body and lists the offset and size of every body in
\* the order of sections(), unaryData's entry first; the locator of the TOC
\* is the last chunk of the file; and a Write that fails on the unaryData
\* has written neither TOC nor locator.
WriteLayout ==
  wrW # <<>> =>
    /\ \A i \in 1..Len(wrW.out) :
         wrW.out[i].off = IF i = 1 THEN 0
                          ELSE wrW.out[i - 1].off + wrW.out[i - 1].sz
    /\ \A i, j \in 1..Len(wrW.out) :
         wrW.out[i].sec = wrW.out[j].sec => i = j
    /\ \A i \in 1..Len(wrW.out) :
         /\ wrW.out[i].sec = "fileContents" <=> i = 1
         /\ wrW.out[i].sec = "unaryData" <=> i = Len(sections)
         /\ wrW.out[i].sec = "toc" <=> i = Len(sections) + 1
         /\ wrW.out[i].sec = "locator" <=> i = Len(sections) + 2
         /\ wrW.out[i].sec = "toc" =>
              /\ Len(wrW.out[i].entries) = Len(sections)
              /\ wrW.out[i].entries[1].sec = "unaryData"
              /\ \A k \in 1..Len(sections) :
                   /\ wrW.out[i].entries[k].sec = sections[k]
                   /\ wrW.out[i].entries[k].off = BodyOf(sections[k]).off
                   /\ wrW.out[i].entries[k].sz = BodyOf(sections[k]).sz
         /\ wrW.out[i].sec = "locator" =>
              /\ wrW.out[i].entries[1].off = wrW.out[i - 1].off
              /\ wrW.out[i].entries[1].sz = wrW.out[i - 1].sz
    /\ wrPc = "done" <=> Len(wrW.out) = Len(sections) + 2
    /\ wrPc = "err" => Len(wrW.out) = Len(sections) - 1

WriteLayoutWitness ==
  /\ wrPc = "done"
  /\ Len(ib.files) > 1
  /\ BodyOf("unaryData").off > BodyOf("fileNames").off
  /\ BodyOf("fileNames").off > BodyOf("postings").off
  /\ BodyOf("postings").sz > 4

\* The documents of a sequence of shards, in the order of the shards.
RECURSIVE DocsOf(_)
DocsOf(calls) ==
  IF calls = <<>> THEN <<>> ELSE Head(calls).docs \o DocsOf(Tail(calls))

\* The documents of a sequence that Add has to queue: text of at most
\* SizeMax bytes.
RECURSIVE Queued(_, _)
Queued(docs, sizeMax) ==
  IF docs = <<>> THEN <<>>
  ELSE (IF Len(Head(docs).Content) <= sizeMax
           /\ 0 \notin Range(Head(docs).Content)
        THEN <<Head(docs)>> ELSE <<>>) \o Queued(Tail(docs), sizeMax)

\* C29: Builder.Add returns nil on a document longer than SizeMax and
\* leaves the pending documents, the pending size, the shard numbering and
\* the shards built as they were; a text document of at most SizeMax bytes
\* is appended to the pending documents (which the same call may hand to
\* buildShard); and as long as no build has failed, the documents built and
\* pending are exactly the text documents of at most SizeMax bytes given so
\* far, in their order.
OversizeSkipped ==
  /\ (bbLast # <<>> /\ bbLast.call = "Add"
        /\ Len(bbLast.doc.Content) > bbLast.before.opts.SizeMax) =>
       /\ bbLast.err = "nil"
       /\ bb.todo = bbLast.before.todo
       /\ bb.size = bbLast.before.size
       /\ bb.nextShardNum = bbLast.before.nextShardNum
       /\ bbBuilt = bbLast.built
  /\ (bbLast # <<>> /\ bbLast.call = "Add"
        /\ Len(bbLast.doc.Content) <= bbLast.before.opts.SizeMax
        /\ 0 \notin Range(bbLast.doc.Content)) =>
       \/ /\ bb.todo = Append(bbLast.before.todo, bbLast.doc)
          /\ bb.size = bbLast.before.size + Len(bbLast.doc.Name)
                         + Len(bbLast.doc.Content)
          /\ bbBuilt = bbLast.built
       \/ /\ bb.todo = <<>>
          /\ bb.size = 0
          /\ bbLast.before.buildError = "nil" =>
               bbBuilt = Append(bbLast.built,
                                [docs |-> Append(bbLast.before.todo,
                                                 bbLast.doc),
                                 shard |-> bbLast.before.nextShardNum])
  /\ (bbLast # <<>> /\ bb.buildError = "nil") =>
       DocsOf(bbBuilt) \o bb.todo = Queued(bbLast.docs, bb.opts.SizeMax)

\* A document is skipped for its size between two documents that are
\* queued, and all three calls are behind.
OversizeSkippedWitness ==
  /\ bbLast # <<>>
  /\ bbLast.call = "Add"
  /\ Len(bbLast.docs) = 3
  /\ Len(bbLast.docs[2].Content) > bb.opts.SizeMax
  /\ bb.buildError = "nil"
  /\ DocsOf(bbBuilt) \o bb.todo = <<bbLast.docs[1], bbLast.docs[3]>>
  /\ bbBuilt # <<>>

\* The name and content bytes of a sequence of documents.
RECURSIVE SizeOf(_)
SizeOf(docs) ==
  IF docs = <<>> THEN 0
  ELSE Len(Head(docs).Name) + Len(Head(docs).Content) + SizeOf(Tail(docs))

\* C30: no shard of more than one document is built from documents whose
\* names and contents together exceed ShardMax.
ShardWithinShardMax ==
  \A i \in 1..Len(bbBuilt) :
    Len(bbBuilt[i].docs) > 1 => SizeOf(bbBuilt[i].docs) <= bb.opts.ShardMax

\* C31: every file of the directory that matches the watcher's *.zoekt
\* pattern is a complete shard with no descriptor open on it; so the final
\* name is absent or holds a complete shard, and a file that is being
\* written, or whose writing failed, is not seen by the watcher.
PublishedComplete ==
  wsh # <<>> =>
    \A f \in wsh.dir : GlobZoekt(f.name) => f.chunks = f.of /\ ~f.open

\* The query q is true on the text: Substring(p) iff p occurs in it.
RECURSIVE QueryHolds(_, _)
QueryHolds(q, text) ==
  CASE q.kind = "const" -> q.Value
    [] q.kind = "substr" -> Contains(text, q.Pattern)
    [] q.kind = "and" ->
         \A k \in 1..Len(q.Children) : QueryHolds(q.Children[k], text)
    [] q.kind = "or" ->
         \E k \in 1..Len(q.Children) : QueryHolds(q.Children[k], text)

\* C32: when the regexp matches somewhere in the text, the query that
\* RegexpToQuery(r, 3) returned is true on the text (on its bytes).
DistilledIsSuperset ==
  (rq # <<>> /\ rq.pc = "done" /\ ReFinds(rq.r, rq.text)) =>
    QueryHolds(rq.q, string(rq.text))

\* The bytes with the letters A-Z of ASCII lowered.
toLower(bytes) ==
  [k \in 1..Len(bytes) |->
     CASE bytes[k] = "A" -> "a"
       [] bytes[k] = "B" -> "b"
       [] bytes[k] = "S" -> "s"
       [] OTHER -> bytes[k]]

\* The query q is true on the text, Substring(p) being read without regard
\* to the case of the letters of ASCII.
RECURSIVE QueryHoldsLowered(_, _)
QueryHoldsLowered(q, text) ==
  CASE q.kind = "const" -> q.Value
    [] q.kind = "substr" -> Contains(toLower(text), toLower(q.Pattern))
    [] q.kind = "and" ->
         \A k \in 1..Len(q.Children) : QueryHoldsLowered(q.Children[k], text)
    [] q.kind = "or" ->
         \E k \in 1..Len(q.Children) : QueryHoldsLowered(q.Children[k], text)

\* The regexp has the flag FoldCase nowhere.
RECURSIVE NoFoldCase(_)
NoFoldCase(r) ==
  /\ "FoldCase" \notin r.Flags
  /\ \A k \in 1..Len(r.Sub) : NoFoldCase(r.Sub[k])

\* The superset property with the case-insensitive Substring: it fails too,
\* on (?i)sss and a text of U+017F.
DistilledIsSupersetLowered ==
  (rq # <<>> /\ rq.pc = "done" /\ ReFinds(rq.r, rq.text)) =>
    QueryHoldsLowered(rq.q, string(rq.text))

\* The superset property for the regexps without FoldCase: it holds.
DistilledIsSupersetNoFold ==
  (rq # <<>> /\ rq.pc = "done" /\ NoFoldCase(rq.r)
     /\ ReFinds(rq.r, rq.text)) =>
    QueryHolds(rq.q, string(rq.text))

\* The rune c is in the character class.
InClass(class, c) ==
  \E k \in 1..Len(class) : k % 2 = 1 /\ class[k] <= c /\ c <= class[k + 1]

\* The runes the classes are compared on: ASCII and the last rune.
Runes == 0..127 \cup {MaxRune}

\* C33: the class LowerRegexp returns for an exclusion class holds exactly
\* the runes of the class given that are not the lower-case counterpart of
\* an excluded letter A-Z.
ExclusionLowered ==
  (lr # <<>> /\ lr.pc = "done") =>
    \A c \in Runes :
      InClass(lr.out.Rune, c) <=>
        /\ InClass(lr.r.Rune, c)
        /\ ~(c >= 97 /\ c <= 122 /\ ~InClass(lr.r.Rune, c - 32))

\* The searchers of the events that loop() has taken from the channel and
\* handed to replace(), replace() having returned.
Delivered ==
  {s \in SearcherIds :
     /\ s < nextId
     /\ s # swSend.Searcher
     /\ s \notin {e.Searcher : e \in Range(sink)}
     /\ ~(s = loopEv.Searcher /\ loopPc \in {"lock", "body"})}

\* C34: no searcher is closed twice, a searcher in the table is open, once
\* Close has dropped the table nothing is installed, and when Close has
\* returned and the loop has drained the channel every delivered searcher
\* has been closed exactly once.
ClosedExactlyOnce ==
  /\ \A s \in SearcherIds : closeCount[s] <= 1
  /\ \A k \in Keys(shards) : closeCount[shards[k]] = 0
  /\ shardsNil => Keys(shards) = {}
  /\ (clPc = "done" /\ sink = <<>> /\ loopPc \in {"recv", "done"}) =>
       \A s \in Delivered : closeCount[s] = 1

\* C34 witness: Close has returned, the channel is closed and drained and
\* the loop has ended; two searchers were delivered and each has been
\* closed once.
ClosedExactlyOnceWitness ==
  /\ clPc = "done"
  /\ sink = <<>>
  /\ loopPc = "done"
  /\ shardsNil
  /\ \E s, t \in Delivered : s < t /\ closeCount[s] = 1 /\ closeCount[t] = 1

\* The results that have been sent on the aggregation channel: those still
\* buffered and those the aggregation loop has taken.
ResultsSent == Len(all) + received

\* C35: a per-shard goroutine whose search has returned or panicked can
\* send at once; every goroutine that has finished has sent one result,
\* its own or the crash record, and no other result has been sent; and
\* when every goroutine has finished, Search has a result to take or has
\* taken them all, so it returns.
OneResultPerShard ==
  /\ (\E s \in SearcherIds : gPc[s] = "run") => ENABLED ShardEnd
  /\ ResultsSent = Cardinality({s \in SearcherIds : gPc[s] = "sent"})
  /\ \A s \in SearcherIds :
       /\ gPc[s] = "sent" <=> gRes[s] # NoResult
       /\ gRes[s] # NoResult =>
            gRes[s] \in ShardReturns(s) \cup {CrashResult}
  /\ (sPc = "agg" /\ \A s \in snapshot : gPc[s] = "sent") =>
       (all # <<>> \/ received = Cardinality(snapshot))

\* C35 witness: Search has returned early on an error, every goroutine has
\* finished since, a result nobody will take stays in the channel, and one
\* of the shards has sent a crash record.
OneResultPerShardWitness ==
  /\ sPc = "done"
  /\ retErr
  /\ all # <<>>
  /\ \A s \in snapshot : gPc[s] = "sent"
  /\ \E s \in snapshot : gRes[s] = CrashResult

\* The value of the node t once every atom has been evaluated, the leaves
\* being in the states st.
RECURSIVE finalValue(_, _)
finalValue(t, st) ==
  CASE t.kind = "and" -> \A i \in 1..Len(t.ch) : finalValue(t.ch[i], st)
    [] t.kind = "or" -> \E i \in 1..Len(t.ch) : finalValue(t.ch[i], st)
    [] t.kind = "not" -> ~finalValue(t.ch[1], st)
    [] t.kind = "noVisit" -> finalValue(t.ch[1], st)
    [] OTHER -> leafMatches(t.kind, st[t.id])[1]

\* The node of t at path p.
RECURSIVE nodeAt(_, _)
nodeAt(t, p) == IF p = <<>> THEN t ELSE nodeAt(t.ch[Head(p)], Tail(p))

\* The verdict r of an evalMatchTree on the root, and the map it left,
\* agree with the values the nodes have in the final leaf states stF.
agreesWithFinal(t, r, stF) ==
  /\ r.ok => r.v = finalValue(t, stF)
  /\ \A p \in r.known.T \cup r.known.F :
       (p \in r.known.T) = finalValue(nodeAt(t, p), stF)

\* The leaf states after the file-name atoms, after the content atoms and
\* after the regexp atoms of t are evaluated on document doc.
afterFileAtoms(t, st0) == evalContentAll(fileAtoms(t, st0), st0)

afterContentAtoms(t, st0) ==
  evalContentAll(substrAtoms(t, st0), afterFileAtoms(t, st0))

afterAllAtoms(t, st0, doc) ==
  evalRegexpAll(regexpAtoms(t), afterContentAtoms(t, st0), doc)

\* The evalMatchTree calls of one iteration of Search, each on the map the
\* one before left: before the file-name atoms, after them, after the
\* content atoms, and after the regexp atoms.
stageVerdicts(t, st0, doc) ==
  LET r0 == evalMatchTree(NoKnown, t, <<>>, st0)
      r1 == evalMatchTree(r0.known, t, <<>>, afterFileAtoms(t, st0))
      r2 == evalMatchTree(r1.known, t, <<>>, afterContentAtoms(t, st0))
      r3 == evalMatchTree(r2.known, t, <<>>, afterAllAtoms(t, st0, doc))
  IN {r0, r1, r2, r3}

\* C36: in every iteration of Search that evaluates a document, each
\* evalMatchTree that is sure returns the value the node has once all atoms
\* are evaluated, the known map holds only such values, and the document
\* is added to the result exactly when the tree is true of it then.
EarlyDecisionsFinal ==
  [][(dPc = "loop" /\ prepared' # prepared /\ dPc' # "panic"
      /\ res'.Stats.FilesSkipped = res.Stats.FilesSkipped) =>
       /\ \A r \in stageVerdicts(mt, prepare(mt, atoms, lastDoc'), lastDoc') :
            agreesWithFinal(mt, r,
              afterAllAtoms(mt, prepare(mt, atoms, lastDoc'), lastDoc'))
       /\ Len(res'.Files) > Len(res.Files) <=>
            finalValue(mt,
              afterAllAtoms(mt, prepare(mt, atoms, lastDoc'), lastDoc'))]_vars

\* C36 witness: every document so far was evaluated, and the last one was
\* rejected by the first evalMatchTree, before any atom was evaluated: a
\* child of the conjunction was sure and false while a substring with
\* candidates that the content does not confirm was not yet sure.
EarlyDecisionsFinalWitness ==
  /\ dPc = "loop"
  /\ prepared # <<>>
  /\ res.Stats.FilesSkipped = 0
  /\ mt.kind = "and"
  /\ evalMatchTree(NoKnown, mt, <<>>, atoms).ok
  /\ ~evalMatchTree(NoKnown, mt, <<>>, atoms).v
  /\ \E l \in Range(collectAtoms(mt)) :
       /\ l.kind = "substr"
       /\ Len(atoms[l.id].current) > 0
       /\ ~atoms[l.id].contEvaluated
       /\ ~atoms[l.id].coversContent
       /\ \E m \in Range(atoms[l.id].current) : ~m.real

\* C37: when Finish has returned no goroutine of a flush is running, and
\* it has returned an error exactly when a buildShard returned one; a build
\* error that is recorded stays as it is, and no call made while it is
\* recorded starts a shard build.
FinishReports ==
  /\ [](bbFin \in BuildErrors =>
          /\ bbRunning = {}
          /\ bbFin # "nil" <=> bbFailed # {})
  /\ [][(bb # <<>> /\ bb.buildError # "nil") =>
          /\ bb'.buildError = bb.buildError
          /\ bbBuilt' = bbBuilt]_vars

\* C37 witness: a parallel Builder whose Finish found a build error
\* recorded and documents pending, started no build for them, waited and
\* returned the error.
FinishReportsWitness ==
  /\ bbFin = "error"
  /\ bb.opts.Parallelism > 1
  /\ bbLast.call = "Finish"
  /\ bbLast.before.buildError # "nil"
  /\ bbLast.before.todo # <<>>
  /\ Len(bbBuilt) > 1

\* C38: when Finish has returned without error, the shard numbers used by
\* the run are 0..k-1, each once, and the directory holds exactly the files
\* of these numbers, each written by this run.
OnlyShardsOfThisRun ==
  bbFin = "nil" =>
    /\ {bbBuilt[i].shard : i \in DOMAIN bbBuilt} = 0..Len(bbBuilt) - 1
    /\ \A i, j \in DOMAIN bbBuilt : bbBuilt[i].shard = bbBuilt[j].shard => i = j
    /\ bbDir = {ShardOf(n, "new") : n \in 0..Len(bbBuilt) - 1}

\* C39: once replace has returned, the events forwarded are, one for one
\* and in order, the events received: each has the name of the received
\* one, carries no searcher when the received one carries none, and
\* otherwise carries a wrapper whose Searcher is the received searcher.
ForwardsFaithfully ==
  (gl # <<>> /\ gl.pc # "send") =>
    /\ Len(gl.sent) = Len(gl.recv)
    /\ \A i \in 1..Len(gl.sent) :
         /\ gl.sent[i].Name = gl.recv[i].Name
         /\ gl.sent[i].Searcher = NoWrapper <=> gl.recv[i].Searcher = 0
         /\ gl.recv[i].Searcher # 0 =>
              gl.sent[i].Searcher = Wrapper(gl.recv[i].Searcher)

====
